---- MODULE Spec2Model ----
(***************************************************************************)
(* A model of the CoC playground: tokenizer, surface parser, scope and     *)
(* dependency checker, elaborator, substitution / alpha-equivalence,       *)
(* normalizer, bidirectional type checker and the React pipeline that      *)
(* drives them.                                                            *)
(*                                                                         *)
(* Strings of the program (sources, token values, names) are sequences of  *)
(* one-character strings, so that the regular expressions of the tokenizer *)
(* and the suffix arithmetic of freshName are computed as the code does.   *)
(* A JavaScript exception (a read of a property of undefined) is the       *)
(* distinguished outcome "throw" of the operator that models the function. *)
(***************************************************************************)
EXTENDS Integers, Sequences, FiniteSets, TLC

(***************************************************************************)
(* State.  Several machines share the module: the React pipeline of App.tsx   *)
(* (Spec), a tokenizer driven by repeated next() calls (SpecTok), a parser *)
(* run on a source (SpecParse) and the type checker run on a context and a *)
(* term (SpecTC), and the library functions applied to arguments (SpecCtx, *)
(* SpecDef, SpecElab).  The variables that a specification does            *)
(* not drive keep the value Undefined.                                     *)
(***************************************************************************)
VARIABLES source, pGlobalContext, error, success, successDefs, runIdRef,
          effectPending, crashed,
          tkz, tkzPrev, tok,
          pcase, psrc, presult,
          tcJc, tcTerm, tcOut,
          ctxIn, ctxOut,
          dfArgs, dfOut,
          elIn, elOut

(***************************************************************************)
(* Characters                                                              *)
(***************************************************************************)
Lower == {"a","b","c","d","e","f","g","h","i","j","k","l","m",
          "n","o","p","q","r","s","t","u","v","w","x","y","z"}

Upper == {"A","B","C","D","E","F","G","H","I","J","K","L","M",
          "N","O","P","Q","R","S","T","U","V","W","X","Y","Z"}

Digit == {"0","1","2","3","4","5","6","7","8","9"}

\* \s of the JavaScript regular expressions (ASCII part)
Blank == {" ", "\t", "\n", "\r", "\f"}

\* \w of the JavaScript regular expressions
WordChar == Lower \cup Upper \cup Digit \cup {"_"}

\* [\w'] : the characters that continue an identifier
IdentChar == WordChar \cup {"'"}

\* [A-Za-z_] : the characters that start an identifier
IdentStart == Lower \cup Upper \cup {"_"}

(***************************************************************************)
(* String primitives (String.prototype.slice / startsWith / indexOf)       *)
(***************************************************************************)
Drop(s, n) == SubSeq(s, n + 1, Len(s))

Take(s, n) == SubSeq(s, 1, n)

StartsWith(s, p) == Len(s) >= Len(p) /\ SubSeq(s, 1, Len(p)) = p

\* 0-based index of the first occurrence of p in s at or after `from`, or -1
RECURSIVE IndexOf(_, _, _)
IndexOf(s, p, from) ==
  IF from + Len(p) > Len(s) THEN -1
  ELSE IF SubSeq(s, from + 1, from + Len(p)) = p THEN from
  ELSE IndexOf(s, p, from + 1)

\* length of the longest prefix of s whose characters all lie in cs
RECURSIVE SpanLen(_, _)
SpanLen(s, cs) ==
  IF s = <<>> \/ Head(s) \notin cs THEN 0 ELSE 1 + SpanLen(Tail(s), cs)

\* length of the longest prefix of s that does not contain the character c
RECURSIVE SpanUntil(_, _)
SpanUntil(s, c) ==
  IF s = <<>> \/ Head(s) = c THEN 0 ELSE 1 + SpanUntil(Tail(s), c)

(***************************************************************************)
(* Result (result.ts)                                                      *)
(***************************************************************************)
succ(value) == [tag |-> "succ", value |-> value]

err(e) == [tag |-> "err", err |-> e]

isSucc(r) == r.tag = "succ"

isErr(r) == r.tag = "err"

\* the outcome of a call that ends in a JavaScript exception
Thrown == [tag |-> "throw"]

isThrow(r) == r.tag = "throw"

(***************************************************************************)
(* Tokenizer (tokenize.ts)                                                 *)
(***************************************************************************)
Keywords ==
  << [type |-> "RES_DEF",    text |-> <<"d","e","f">>],
     [type |-> "RES_VAR",    text |-> <<"v","a","r">>],
     [type |-> "RES_PROP",   text |-> <<"P","r","o","p">>],
     [type |-> "RES_TYPE",   text |-> <<"T","y","p","e">>],
     [type |-> "RES_FUN",    text |-> <<"f","u","n">>],
     [type |-> "RES_FORALL", text |-> <<"f","o","r","a","l","l">>],
     [type |-> "RES_EXIST",  text |-> <<"e","x","i","s","t">>],
     [type |-> "RES_LET",    text |-> <<"l","e","t">>],
     [type |-> "RES_IN",     text |-> <<"i","n">>] >>

Punctuation ==
  << [type |-> "FAT_ARROW", text |-> <<"=",">">>],
     [type |-> "ARROW",     text |-> <<"-",">">>],
     [type |-> "ASSIGN",    text |-> <<":","=">>],
     [type |-> "LPAREN",    text |-> <<"(">>],
     [type |-> "RPAREN",    text |-> <<")">>],
     [type |-> "COLON",     text |-> <<":">>],
     [type |-> "COMMA",     text |-> <<",">>],
     [type |-> "LANGLE",    text |-> <<"<">>],
     [type |-> "RANGLE",    text |-> <<">">>],
     [type |-> "DOTONE",    text |-> <<".","1">>],
     [type |-> "DOTTWO",    text |-> <<".","2">>],
     [type |-> "AND",       text |-> <<"&">>],
     [type |-> "SEMICOLON", text |-> <<";">>] >>

\* the pattern table, in the order in which next() tries it
patterns ==
  << [type |-> "BLANKS", kind |-> "blanks", text |-> <<>>],
     [type |-> "COMMENT", kind |-> "comment", text |-> <<>>] >>
  \o [i \in 1..Len(Keywords) |->
        [type |-> Keywords[i].type, kind |-> "keyword", text |-> Keywords[i].text]]
  \o [i \in 1..Len(Punctuation) |->
        [type |-> Punctuation[i].type, kind |-> "literal", text |-> Punctuation[i].text]]
  \o << [type |-> "IDENT", kind |-> "ident", text |-> <<>>] >>

\* re.exec(rest): the length of m[0], or 0 when the pattern does not match
\* (no pattern of the table matches the empty string)
MatchLen(p, rest) ==
  CASE p.kind = "blanks"  -> SpanLen(rest, Blank)
    [] p.kind = "comment" ->
         IF StartsWith(rest, <<"-","-">>)
         THEN LET n == SpanUntil(Drop(rest, 2), "\n")
              IN  IF 2 + n < Len(rest) THEN 2 + n + 1 ELSE 2 + n
         ELSE 0
    [] p.kind = "keyword" ->
         IF StartsWith(rest, p.text)
            /\ (Len(rest) = Len(p.text) \/ rest[Len(p.text) + 1] \notin IdentChar)
         THEN Len(p.text) ELSE 0
    [] p.kind = "literal" -> IF StartsWith(rest, p.text) THEN Len(p.text) ELSE 0
    [] p.kind = "ident"   ->
         IF rest # <<>> /\ Head(rest) \in IdentStart
         THEN 1 + SpanLen(Tail(rest), IdentChar) ELSE 0

\* constructor: src.replace(/\r\n|\r/g, "\n")
RECURSIVE NormalizeNewlines(_)
NormalizeNewlines(s) ==
  IF s = <<>> THEN <<>>
  ELSE IF Head(s) = "\r"
       THEN <<"\n">> \o NormalizeNewlines(
              IF Len(s) >= 2 /\ s[2] = "\n" THEN Drop(s, 2) ELSE Tail(s))
       ELSE <<Head(s)>> \o NormalizeNewlines(Tail(s))

Tokenizer(src) == [src |-> NormalizeNewlines(src), pos |-> 0, line |-> 1, col |-> 1]

eof(tz) == tz.pos >= Len(tz.src)

RECURSIVE advanceText(_, _)
advanceText(tz, text) ==
  IF text = <<>> THEN tz
  ELSE advanceText(
         IF Head(text) = "\n"
         THEN [tz EXCEPT !.line = @ + 1, !.col = 1, !.pos = @ + 1]
         ELSE [tz EXCEPT !.col = @ + 1, !.pos = @ + 1],
         Tail(text))

currentPosition(tz) == [line |-> tz.line, col |-> tz.col]

Token(type, value, start, end) ==
  [type |-> type, value |-> value, range |-> [start |-> start, end |-> end]]

\* index of the first pattern at or after i that matches rest, or 0
RECURSIVE FirstMatch(_, _)
FirstMatch(rest, i) ==
  IF i > Len(patterns) THEN 0
  ELSE IF MatchLen(patterns[i], rest) > 0 THEN i
  ELSE FirstMatch(rest, i + 1)

\* Every call f(a, b) of a function or method of the program is written
\* Call("f", <<a, b>>); Call, defined after the functions, applies f.
RECURSIVE Call(_, _)
RECURSIVE Exec(_, _, _)

\* the end of the loop body of next() for the pattern of the given type:
\* tz2 is the tokenizer after this.advance(value)
emitToken(tz, type, value, tz2) ==
  IF type \in {"BLANKS", "COMMENT"}
  THEN Call("next", <<tz2>>)
  ELSE [res |-> succ(Token(type, value, currentPosition(tz), currentPosition(tz2))),
        tz |-> tz2]

\* for (const { type, re } of patterns): i is the index of the first
\* pattern that matches rest, or 0 when none does
matchPatterns(tz, rest, i) ==
  IF i = 0
  THEN [res |-> err([tag |-> "UnexpectedChar", char |-> tz.src[tz.pos + 1],
                     pos |-> currentPosition(tz)]),
        tz |-> tz]
  ELSE Call("emitToken", <<tz, patterns[i].type, Take(rest, MatchLen(patterns[i], rest)),
                           advanceText(tz, Take(rest, MatchLen(patterns[i], rest)))>>)

\* a variant of the EOF token whose range starts at the start of the input
eofTokenFromStart(tz) ==
  succ(Token("EOF", <<>>, [line |-> 1, col |-> 1], currentPosition(tz)))

\* const p = this.currentPosition(); the EOF token with range {p, p}
eofToken(tz) ==
  succ(Token("EOF", <<>>, currentPosition(tz), currentPosition(tz)))

\* Tokenizer.next(): the result and the tokenizer after the call
next(tz) ==
  IF eof(tz)
  THEN [res |-> eofToken(tz), tz |-> tz]
  ELSE
    LET rest == Drop(tz.src, tz.pos) IN
    IF StartsWith(rest, <<"{","-">>)
    THEN LET close_index == IndexOf(rest, <<"-","}">>, 2) IN
         IF close_index = -1
         THEN [res |-> err([tag |-> "UnclosedComment", pos |-> currentPosition(tz)]),
               tz |-> tz]
         ELSE Call("next", <<advanceText(tz, Take(rest, close_index + 2))>>)
    ELSE Call("matchPatterns", <<tz, rest, FirstMatch(rest, 1)>>)

(***************************************************************************)
(* Surface syntax (pdef.ts).  Source ranges are diagnostic payload only:   *)
(* no branch of the program reads them, and the surface nodes of the model *)
(* do not carry them.  An absent optional field holds Undefined.           *)
(***************************************************************************)
Undefined == [tag |-> "undefined"]

varBinder(names, type) == [tag |-> "Var", names |-> names, type |-> type]

defBinder(name, type, def) == [tag |-> "Def", name |-> name, type |-> type, def |-> def]

PSort(name) == [tag |-> "Sort", name |-> name]

Variable(name) == [tag |-> "Variable", name |-> name]

Lambda(binders, body) == [tag |-> "Lambda", binders |-> binders, body |-> body]

PPi(binders, body) == [tag |-> "Pi", binders |-> binders, body |-> body]

Arrow(in, out) == [tag |-> "Arrow", in |-> in, out |-> out]

PPair(first, second, type) ==
  [tag |-> "Pair", first |-> first, second |-> second, type |-> type]

First(pair) == [tag |-> "First", pair |-> pair]

Second(pair) == [tag |-> "Second", pair |-> pair]

Sigma(binders, body) == [tag |-> "Sigma", binders |-> binders, body |-> body]

Prod(first, second) == [tag |-> "Prod", first |-> first, second |-> second]

PLet(name, binders, type, def, body) ==
  [tag |-> "Let", name |-> name, binders |-> binders, type |-> type,
   def |-> def, body |-> body]

Apply(apply) == [tag |-> "Apply", apply |-> apply]

pVarElem(name, type) == [tag |-> "Var", name |-> name, type |-> type]

pDefElem(name, type, def) == [tag |-> "Def", name |-> name, type |-> type, def |-> def]

pGlobalElem(name, type, def) ==
  IF def # Undefined
  THEN [tag |-> "Def", name |-> name, type |-> type, def |-> def]
  ELSE [tag |-> "Var", name |-> name, type |-> type]

pGlobal(elem, local) == [elem |-> elem, local |-> local]

\* Set.prototype.add on a set that is iterated in insertion order
SeqAdd(acc, x) == IF \E i \in 1..Len(acc) : acc[i] = x THEN acc ELSE Append(acc, x)

SeqHas(acc, x) == \E i \in 1..Len(acc) : acc[i] = x

\* the elements of a sequence, as a set
Range(s) == {s[i] : i \in 1..Len(s)}

\* collect(t, env, acc): env and acc are mutated in place, so the model
\* threads the pair st = [env, acc] through the calls in program order.
collect(t, st) ==
  CASE t.tag = "Sort" -> st
    [] t.tag = "Variable" ->
         IF t.name \notin st.env THEN [st EXCEPT !.acc = SeqAdd(@, t.name)] ELSE st
    [] t.tag = "Arrow" -> Call("collect", <<t.out, Call("collect", <<t.in, st>>)>>)
    [] t.tag = "Pair" ->
         LET s2 == Call("collect", <<t.second, Call("collect", <<t.first, st>>)>>)
         IN  IF t.type # Undefined THEN Call("collect", <<t.type, s2>>) ELSE s2
    [] t.tag \in {"First", "Second"} -> Call("collect", <<t.pair, st>>)
    [] t.tag = "Prod" -> Call("collect", <<t.second, Call("collect", <<t.first, st>>)>>)
    [] t.tag = "Apply" -> Call("collectAll", <<t.apply, st>>)
    [] t.tag \in {"Lambda", "Pi", "Sigma", "Let"} ->
         LET s1 == Call("collectBinders", <<t.binders, st>>)
             s2 == IF t.tag = "Let"
                   THEN LET a == IF t.type # Undefined THEN Call("collect", <<t.type, s1>>) ELSE s1
                            b == Call("collect", <<t.def, a>>)
                        IN  [b EXCEPT !.env = @ \cup {t.name}]
                   ELSE s1
             s3 == Call("collect", <<t.body, s2>>)
             s4 == IF t.tag = "Let" THEN [s3 EXCEPT !.env = @ \ {t.name}] ELSE s3
             bound == UNION { IF t.binders[i].tag = "Var"
                              THEN Range(t.binders[i].names)
                              ELSE {t.binders[i].name} : i \in 1..Len(t.binders) }
         IN  [s4 EXCEPT !.env = @ \ bound]

\* t.apply.forEach(e => collect(e, env, acc))
collectAll(ts, st) ==
  IF ts = <<>> THEN st ELSE Call("collectAll", <<Tail(ts), Call("collect", <<Head(ts), st>>)>>)

\* the first loop over t.binders
collectBinders(bs, st) ==
  IF bs = <<>> THEN st
  ELSE LET m == Head(bs)
           s1 == IF m.tag = "Var"
                 THEN [Call("collect", <<m.type, st>>) EXCEPT !.env = @ \cup Range(m.names)]
                 ELSE LET a == IF m.type # Undefined THEN Call("collect", <<m.type, st>>) ELSE st
                          b == Call("collect", <<m.def, a>>)
                      IN  [b EXCEPT !.env = @ \cup {m.name}]
       IN  Call("collectBinders", <<Tail(bs), s1>>)

\* the free names of t, in the insertion order of the returned Set
pFreeVariables(t) == Call("collect", <<t, [env |-> {}, acc |-> <<>>]>>).acc

(***************************************************************************)
(* Scope and dependency checker (context.ts)                               *)
(***************************************************************************)
Dependency(to, kind) == [to |-> to, kind |-> kind]

globalDepsOf(ge) ==
  LET bound == {ge.local[i].name : i \in 1..Len(ge.local)}
      Free(v) == v \notin bound
      tdeps == [i \in 1..Len(SelectSeq(Call("pFreeVariables", <<ge.elem.type>>), Free)) |->
                  Dependency(SelectSeq(Call("pFreeVariables", <<ge.elem.type>>), Free)[i], "type")]
      ddeps == IF ge.elem.tag = "Def"
               THEN [i \in 1..Len(SelectSeq(Call("pFreeVariables", <<ge.elem.def>>), Free)) |->
                       Dependency(SelectSeq(Call("pFreeVariables", <<ge.elem.def>>), Free)[i], "def")]
               ELSE <<>>
  IN  tdeps \o ddeps

localDepsOf(e) ==
  LET Deps(t, kind) == [i \in 1..Len(Call("pFreeVariables", <<t>>)) |->
                          Dependency(Call("pFreeVariables", <<t>>)[i], kind)]
  IN  IF e.tag = "Var" THEN Deps(e.type, "type")
      ELSE (IF e.type # Undefined THEN Deps(e.type, "type") ELSE <<>>)
           \o Deps(e.def, "def")

\* a variant of buildDefInfo that does not look for repeated local names
FirstRepeatNever(ns) == 0

\* index of the first name of ns that occurs earlier in ns, or 0
FirstRepeat(ns) ==
  LET R == {i \in 1..Len(ns) : \E j \in 1..(i - 1) : ns[j] = ns[i]}
  IN  IF R = {} THEN 0 ELSE CHOOSE i \in R : \A j \in R : i <= j

buildDefInfoLoop(ctx, i, globals) ==
  IF i > Len(ctx) THEN succ(globals)
  ELSE LET ge == ctx[i]
           names == [k \in 1..Len(ge.local) |-> ge.local[k].name]
           rep == FirstRepeat(names)
       IN  IF ge.elem.name \in globals
           THEN err([tag |-> "DuplicateGlobal", name |-> ge.elem.name])
           ELSE IF rep # 0
           THEN err([tag |-> "DuplicateLocal", name |-> names[rep]])
           ELSE Call("buildDefInfoLoop", <<ctx, i + 1, globals \cup {ge.elem.name}>>)

buildDefInfo(ctx) == Call("buildDefInfoLoop", <<ctx, 1, {}>>)

GlobalNode(name) == <<"global", name>>

LocalNode(gname, name) == <<"local", gname, name>>

\* a variant of the loop over the dependencies of a global that accepts
\* names that are not declared
globalDepErrorSelfOnly(g, deps, i, info) ==
  IF i > Len(deps) THEN Undefined
  ELSE IF deps[i].to = g.elem.name
  THEN [tag |-> "SelfReference", name |-> g.elem.name, kind |-> deps[i].kind]
  ELSE Call("globalDepError", <<g, deps, i + 1, info>>)

\* the first error of the loop over the dependencies of a global, or Undefined
globalDepError(g, deps, i, info) ==
  IF i > Len(deps) THEN Undefined
  ELSE IF deps[i].to = g.elem.name
  THEN [tag |-> "SelfReference", name |-> g.elem.name, kind |-> deps[i].kind]
  ELSE IF deps[i].to \notin info
  THEN [tag |-> "Undefined", name |-> deps[i].to, in |-> g.elem.name,
        kind |-> deps[i].kind]
  ELSE Call("globalDepError", <<g, deps, i + 1, info>>)

\* the first error of the loop over the dependencies of a local, or Undefined
localDepError(localElem, deps, i, seenLocals, info) ==
  IF i > Len(deps) THEN Undefined
  ELSE IF deps[i].to = localElem.name
  THEN [tag |-> "SelfReference", name |-> localElem.name, kind |-> deps[i].kind]
  ELSE IF deps[i].to \notin seenLocals /\ deps[i].to \notin info
  THEN [tag |-> "Undefined", name |-> deps[i].to, in |-> localElem.name,
        kind |-> deps[i].kind]
  ELSE Call("localDepError", <<localElem, deps, i + 1, seenLocals, info>>)

\* the loop over g.local: the graph extended by the local nodes, or an error
buildLocals(g, k, seenLocals, info, graph) ==
  IF k > Len(g.local) THEN succ(graph)
  ELSE LET localElem == g.local[k]
           localDeps == Call("localDepsOf", <<localElem>>)
           e == Call("localDepError", <<localElem, localDeps, 1, seenLocals, info>>)
       IN  IF e # Undefined THEN err(e)
           ELSE Call("buildLocals", <<g, k + 1, seenLocals \cup {localElem.name}, info,
                  Append(graph, [node |-> LocalNode(g.elem.name, localElem.name),
                                 deps |-> localDeps])>>)

\* the graph is a Map iterated in insertion order: a sequence of entries;
\* buildDefInfo has made the keys pairwise distinct
buildDepGraphLoop(ctx, i, info, graph) ==
  IF i > Len(ctx) THEN succ([graph |-> graph])
  ELSE LET g == ctx[i]
           globalDeps == Call("globalDepsOf", <<g>>)
           e == Call("globalDepError", <<g, globalDeps, 1, info>>)
       IN  IF e # Undefined THEN err(e)
           ELSE LET r == Call("buildLocals", <<g, 1, {}, info,
                           Append(graph, [node |-> GlobalNode(g.elem.name),
                                          deps |-> globalDeps])>>)
                IN  IF isErr(r) THEN r
                    ELSE Call("buildDepGraphLoop", <<ctx, i + 1, info, r.value>>)

buildDepGraph(ctx, info) == Call("buildDepGraphLoop", <<ctx, 1, info, <<>>>>)

depToNode(fromNode, dep) ==
  IF fromNode[1] = "global" THEN GlobalNode(dep.to)
  ELSE LocalNode(fromNode[2], dep.to)

graphHas(graph, v) == \E i \in 1..Len(graph) : graph[i].node = v

\* graph.get(v) ?? []
graphGet(graph, v) ==
  IF graphHas(graph, v)
  THEN graph[CHOOSE i \in 1..Len(graph) : graph[i].node = v].deps
  ELSE <<>>

\* stack.indexOf(to), 1-based
stackIndexOf(stack, to) ==
  CHOOSE i \in 1..Len(stack) : stack[i] = to /\ \A j \in 1..(i - 1) : stack[j] # to

\* dfs(v) of detectCycle; st = [visited, stack, onStack] is the closure state.
\* The result is [r, st].
dfs(graph, v, st) ==
  Call("dfsDeps", <<graph, v, graphGet(graph, v), 1,
          [visited |-> st.visited \cup {v},
           stack   |-> Append(st.stack, v),
           onStack |-> st.onStack \cup {v}]>>)

dfsDeps(graph, v, deps, i, st) ==
  IF i > Len(deps)
  THEN [r |-> succ(TRUE),
        st |-> [st EXCEPT !.stack = SubSeq(@, 1, Len(@) - 1), !.onStack = @ \ {v}]]
  ELSE
    LET dep == deps[i]
        to == depToNode(v, dep)
    IN  IF ~graphHas(graph, to) THEN Call("dfsDeps", <<graph, v, deps, i + 1, st>>)
        ELSE IF to \notin st.visited
        THEN LET r == Call("dfs", <<graph, to, st>>)
             IN  IF isErr(r.r) THEN r ELSE Call("dfsDeps", <<graph, v, deps, i + 1, r.st>>)
        ELSE IF to \in st.onStack
        THEN LET idx == stackIndexOf(st.stack, to)
                 cyclePath ==
                   [k \in 1..(Len(st.stack) - idx + 1) |->
                      [from |-> st.stack[idx + k - 1],
                       to   |-> IF idx + k <= Len(st.stack)
                                THEN st.stack[idx + k] ELSE to,
                       kind |-> dep.kind]]
             IN  [r |-> err([tag |-> "Cycle", path |-> cyclePath]), st |-> st]
        ELSE Call("dfsDeps", <<graph, v, deps, i + 1, st>>)

\* the loop over graph.keys()
detectCycleLoop(graph, i, st) ==
  IF i > Len(graph) THEN succ(TRUE)
  ELSE IF graph[i].node \notin st.visited
  THEN LET r == Call("dfs", <<graph, graph[i].node, st>>)
       IN  IF isErr(r.r) THEN r.r ELSE Call("detectCycleLoop", <<graph, i + 1, r.st>>)
  ELSE Call("detectCycleLoop", <<graph, i + 1, st>>)

detectCycle(graph) ==
  Call("detectCycleLoop", <<graph, 1, [visited |-> {}, stack |-> <<>>, onStack |-> {}]>>)

checkGlobalContext(ctx) ==
  LET infoR == Call("buildDefInfo", <<ctx>>) IN
  IF isErr(infoR) THEN infoR
  ELSE LET graphR == Call("buildDepGraph", <<ctx, infoR.value>>) IN
       IF isErr(graphR) THEN graphR
       ELSE Call("detectCycle", <<graphR.value.graph>>)

(***************************************************************************)
(* Parser (parse.ts).  The parser object is the record                     *)
(* [tokenizer, curr, prev]; every method returns [r, p]: its Result and    *)
(* the parser after the call.  The trace tree built by withNode is         *)
(* write-only diagnostic state and is not part of the model.               *)
(***************************************************************************)
\* if (isErr(x)) return x; otherwise continue with F
Try(x, F(_)) == IF isErr(x.r) THEN x ELSE F(x)

Ret(r, p) == [r |-> r, p |-> p]

advance(p) ==
  LET res == Call("next", <<p.tokenizer>>) IN
  IF isErr(res.res)
  THEN Ret(err([tag |-> "Tokenizer", error |-> res.res.err]),
           [p EXCEPT !.tokenizer = res.tz])
  ELSE Ret(succ(Undefined),
           [tokenizer |-> res.tz, prev |-> p.curr, curr |-> res.res.value])

\* constructor: the result of the first advance() is dropped
Parser(tokenizer) ==
  Call("advance", <<[tokenizer |-> tokenizer, curr |-> Undefined, prev |-> Undefined]>>).p

expect(p, type) ==
  LET t == p.curr IN
  IF t.type # type
  THEN Ret(err([tag |-> "UnexpectedToken", expected |-> type, actual |-> t]), p)
  ELSE LET adv == Call("advance", <<p>>)
       IN  IF isErr(adv.r) THEN adv ELSE Ret(succ(t), adv.p)

isAppStart(token) ==
  token.type \in {"RES_PROP", "RES_TYPE", "IDENT", "LPAREN", "LANGLE"}


\* while (cur.type === "IDENT") { names.push(cur.value); advance(); }
parseNames(p, names) ==
  IF p.curr.type = "IDENT"
  THEN Try(Call("advance", <<p>>), LAMBDA adv : Call("parseNames", <<adv.p, Append(names, p.curr.value)>>))
  ELSE Ret(succ(names), p)

parseOpenBinder(p) ==
  Try(Call("expect", <<p, "IDENT">>), LAMBDA name :
  Try(Call("parseNames", <<name.p, <<name.r.value.value>>>>), LAMBDA names :
  Try(Call("expect", <<names.p, "COLON">>), LAMBDA colon :
  Try(Call("parseTerm", <<colon.p>>), LAMBDA type :
  Ret(succ(varBinder(names.r.value, type.r.value)), type.p)))))

parseVariableBinder(p) ==
  Try(Call("expect", <<p, "LPAREN">>), LAMBDA lparen :
  Try(Call("parseOpenBinder", <<lparen.p>>), LAMBDA open_binder :
  Try(Call("expect", <<open_binder.p, "RPAREN">>), LAMBDA rparen :
  Ret(succ(varBinder(open_binder.r.value.names, open_binder.r.value.type)),
      rparen.p))))

parseClosedBinder(p) ==
  Try(Call("expect", <<p, "LPAREN">>), LAMBDA lparen :
  Try(Call("expect", <<lparen.p, "IDENT">>), LAMBDA ident :
  LET name == ident.r.value.value IN
  IF ident.p.curr.type = "IDENT"
  THEN Try(Call("parseNames", <<ident.p, <<name>>>>), LAMBDA names :
       Try(Call("expect", <<names.p, "COLON">>), LAMBDA colon :
       Try(Call("parseTerm", <<colon.p>>), LAMBDA type :
       Try(Call("expect", <<type.p, "RPAREN">>), LAMBDA rparen :
       Ret(succ(varBinder(names.r.value, type.r.value)), rparen.p)))))
  ELSE
    LET assign0 == Call("expect", <<ident.p, "ASSIGN">>) IN
    IF isSucc(assign0.r)
    THEN Try(Call("parseTerm", <<assign0.p>>), LAMBDA def :
         Try(Call("expect", <<def.p, "RPAREN">>), LAMBDA rparen :
         Ret(succ(defBinder(name, Undefined, def.r.value)), rparen.p)))
    ELSE
      Try(Call("expect", <<assign0.p, "COLON">>), LAMBDA colon :
      Try(Call("parseTerm", <<colon.p>>), LAMBDA type :
      LET rparen0 == Call("expect", <<type.p, "RPAREN">>) IN
      IF isSucc(rparen0.r)
      THEN Ret(succ(varBinder(<<name>>, type.r.value)), rparen0.p)
      ELSE
        Try(Call("expect", <<rparen0.p, "ASSIGN">>), LAMBDA assign :
        Try(Call("parseTerm", <<assign.p>>), LAMBDA def :
        Try(Call("expect", <<def.p, "RPAREN">>), LAMBDA rparen :
        Ret(succ(defBinder(name, type.r.value, def.r.value)), rparen.p))))))))

\* while (cur.type === "LPAREN") binders.push(parseClosedBinder())
parseClosedBinders(p, binders) ==
  IF p.curr.type = "LPAREN"
  THEN Try(Call("parseClosedBinder", <<p>>), LAMBDA b :
       Call("parseClosedBinders", <<b.p, Append(binders, b.r.value)>>))
  ELSE Ret(succ(binders), p)

parseBinder(p) ==
  IF p.curr.type = "IDENT"
  THEN Try(Call("parseOpenBinder", <<p>>), LAMBDA open_binder :
       Ret(succ(<<open_binder.r.value>>), open_binder.p))
  ELSE Try(Call("parseVariableBinder", <<p>>), LAMBDA binder :
       Call("parseClosedBinders", <<binder.p, <<binder.r.value>>>>))

parseLam(p) ==
  Try(Call("expect", <<p, "RES_FUN">>), LAMBDA res_fun :
  Try(Call("parseBinder", <<res_fun.p>>), LAMBDA binders :
  Try(Call("expect", <<binders.p, "FAT_ARROW">>), LAMBDA fat_arrow :
  Try(Call("parseTerm", <<fat_arrow.p>>), LAMBDA body :
  Ret(succ(Lambda(binders.r.value, body.r.value)), body.p)))))

parsePi(p) ==
  Try(Call("expect", <<p, "RES_FORALL">>), LAMBDA res_forall :
  Try(Call("parseBinder", <<res_forall.p>>), LAMBDA binders :
  Try(Call("expect", <<binders.p, "COMMA">>), LAMBDA comma :
  Try(Call("parseTerm", <<comma.p>>), LAMBDA body :
  Ret(succ(PPi(binders.r.value, body.r.value)), body.p)))))

parsePair(p) ==
  Try(Call("expect", <<p, "LANGLE">>), LAMBDA langle :
  Try(Call("parseTerm", <<langle.p>>), LAMBDA first :
  Try(Call("expect", <<first.p, "COMMA">>), LAMBDA comma :
  Try(Call("parseTerm", <<comma.p>>), LAMBDA second :
  Try(Call("expect", <<second.p, "RANGLE">>), LAMBDA rangle :
  IF rangle.p.curr.type = "COLON"
  THEN Try(Call("advance", <<rangle.p>>), LAMBDA adv :
       Try(Call("parseTerm", <<adv.p>>), LAMBDA assertion :
       Ret(succ(PPair(first.r.value, second.r.value, assertion.r.value)),
           assertion.p)))
  ELSE Ret(succ(PPair(first.r.value, second.r.value, Undefined)), rangle.p))))))

parseSigma(p) ==
  Try(Call("expect", <<p, "RES_EXIST">>), LAMBDA res_exist :
  Try(Call("parseBinder", <<res_exist.p>>), LAMBDA binders :
  Try(Call("expect", <<binders.p, "COMMA">>), LAMBDA comma :
  Try(Call("parseTerm", <<comma.p>>), LAMBDA body :
  Ret(succ(Sigma(binders.r.value, body.r.value)), body.p)))))

parseToEndOfBinder(p) ==
  Try(Call("expect", <<p, "IDENT">>), LAMBDA ident :
  Try(Call("parseClosedBinders", <<ident.p, <<>>>>), LAMBDA binders :
  Ret(succ([name |-> ident.r.value.value, binders |-> binders.r.value]),
      binders.p)))

parseLet(p) ==
  Try(Call("expect", <<p, "RES_LET">>), LAMBDA res_let :
  Try(Call("parseToEndOfBinder", <<res_let.p>>), LAMBDA nameBinders :
  Try(IF nameBinders.p.curr.type = "COLON"
      THEN Try(Call("advance", <<nameBinders.p>>), LAMBDA adv : Call("parseTerm", <<adv.p>>))
      ELSE Ret(succ(Undefined), nameBinders.p), LAMBDA type :
  Try(Call("expect", <<type.p, "ASSIGN">>), LAMBDA assign :
  Try(Call("parseTerm", <<assign.p>>), LAMBDA def :
  Try(Call("expect", <<def.p, "RES_IN">>), LAMBDA res_in :
  Try(Call("parseTerm", <<res_in.p>>), LAMBDA body :
  Ret(succ(PLet(nameBinders.r.value.name, nameBinders.r.value.binders,
                type.r.value, def.r.value, body.r.value)), body.p))))))))

parseAtom(p) ==
  LET t == p.curr IN
  IF t.type = "LANGLE" THEN Call("parsePair", <<p>>)
  ELSE
    LET e1 == Call("expect", <<p, "RES_PROP">>) IN
    IF isSucc(e1.r) THEN Ret(succ(PSort("Prop")), e1.p)
    ELSE
      LET e2 == Call("expect", <<e1.p, "RES_TYPE">>) IN
      IF isSucc(e2.r) THEN Ret(succ(PSort("Type")), e2.p)
      ELSE
        LET e3 == Call("expect", <<e2.p, "IDENT">>) IN
        IF isSucc(e3.r) THEN Ret(succ(Variable(t.value)), e3.p)
        ELSE
          Try(Call("expect", <<e3.p, "LPAREN">>), LAMBDA lparen :
          Try(Call("parseTerm", <<lparen.p>>), LAMBDA term :
          Try(Call("expect", <<term.p, "RPAREN">>), LAMBDA rparen :
          Ret(term.r, rparen.p))))

\* while (token.type === "DOTONE" || token.type === "DOTTWO")
parseProjLoop(p, cur) ==
  IF p.curr.type \in {"DOTONE", "DOTTWO"}
  THEN Try(Call("advance", <<p>>), LAMBDA adv :
       Call("parseProjLoop", <<adv.p, IF p.curr.type = "DOTONE" THEN First(cur) ELSE Second(cur)>>))
  ELSE Ret(succ(cur), p)

parseProj(p) ==
  Try(Call("parseAtom", <<p>>), LAMBDA atom : Call("parseProjLoop", <<atom.p, atom.r.value>>))

\* while (this.isAppStart(this.curr)) cur.push(parseProj())
parseAppLoop(p, cur) ==
  IF isAppStart(p.curr)
  THEN Try(Call("parseProj", <<p>>), LAMBDA arg : Call("parseAppLoop", <<arg.p, Append(cur, arg.r.value)>>))
  ELSE Ret(succ(cur), p)

parseApp(p) ==
  Try(Call("parseProj", <<p>>), LAMBDA first :
  Try(Call("parseAppLoop", <<first.p, <<first.r.value>>>>), LAMBDA cur :
  IF Len(cur.r.value) = 1
  THEN Ret(succ(first.r.value), cur.p)
  ELSE Ret(succ(Apply(cur.r.value)), cur.p)))

\* a variant of the loop of parseProd that builds Prod(body, cur): the
\* operands of & end up in the opposite order
parseProdLoopSwapped(p, cur) ==
  IF p.curr.type = "AND"
  THEN Try(Call("advance", <<p>>), LAMBDA adv :
       Try(Call("parseApp", <<adv.p>>), LAMBDA body :
       Call("parseProdLoop", <<body.p, Prod(body.r.value, cur)>>)))
  ELSE Ret(succ(cur), p)

\* while (this.curr.type === "AND")
parseProdLoop(p, cur) ==
  IF p.curr.type = "AND"
  THEN Try(Call("advance", <<p>>), LAMBDA adv :
       Try(Call("parseApp", <<adv.p>>), LAMBDA body :
       Call("parseProdLoop", <<body.p, Prod(cur, body.r.value)>>)))
  ELSE Ret(succ(cur), p)

parseProd(p) ==
  Try(Call("parseApp", <<p>>), LAMBDA first : Call("parseProdLoop", <<first.p, first.r.value>>))

parseArrow(p) ==
  Try(Call("parseProd", <<p>>), LAMBDA left :
  IF left.p.curr.type = "ARROW"
  THEN Try(Call("advance", <<left.p>>), LAMBDA adv :
       Try(Call("parseTerm", <<adv.p>>), LAMBDA right :
       Ret(succ(Arrow(left.r.value, right.r.value)), right.p)))
  ELSE left)

parseTerm(p) ==
  LET t == p.curr IN
  IF t.type = "RES_FUN" THEN Call("parseLam", <<p>>)
  ELSE IF t.type = "RES_FORALL" THEN Call("parsePi", <<p>>)
  ELSE IF t.type = "RES_EXIST" THEN Call("parseSigma", <<p>>)
  ELSE IF t.type = "RES_LET" THEN Call("parseLet", <<p>>)
  ELSE Call("parseArrow", <<p>>)

parseDef(p) ==
  LET d0 == Call("expect", <<p, "RES_DEF">>) IN
  IF isSucc(d0.r)
  THEN Try(Call("parseToEndOfBinder", <<d0.p>>), LAMBDA nameBinders :
       Try(Call("expect", <<nameBinders.p, "COLON">>), LAMBDA colon :
       Try(Call("parseTerm", <<colon.p>>), LAMBDA type :
       Try(Call("expect", <<type.p, "ASSIGN">>), LAMBDA assign :
       Try(Call("parseTerm", <<assign.p>>), LAMBDA def :
       Try(Call("expect", <<def.p, "SEMICOLON">>), LAMBDA semicolon :
       Ret(succ([elem |-> pGlobalElem(nameBinders.r.value.name, type.r.value,
                                      def.r.value),
                 binders |-> nameBinders.r.value.binders]), semicolon.p)))))))
  ELSE Try(Call("parseToEndOfBinder", <<d0.p>>), LAMBDA nameBinders :
       Try(Call("expect", <<nameBinders.p, "COLON">>), LAMBDA colon :
       Try(Call("parseTerm", <<colon.p>>), LAMBDA type :
       Try(Call("expect", <<type.p, "SEMICOLON">>), LAMBDA semicolon :
       Ret(succ([elem |-> pGlobalElem(nameBinders.r.value.name, type.r.value,
                                      Undefined),
                 binders |-> nameBinders.r.value.binders]), semicolon.p)))))

\* the flattening of a declaration's binders into its local context
RECURSIVE flattenBinders(_)
flattenBinders(binders) ==
  IF binders = <<>> THEN <<>>
  ELSE LET e == Head(binders)
       IN  (IF e.tag = "Var"
            THEN [i \in 1..Len(e.names) |-> pVarElem(e.names[i], e.type)]
            ELSE <<pDefElem(e.name, e.type, e.def)>>)
           \o flattenBinders(Tail(binders))

\* while (this.curr.type !== "EOF")
parseProgramLoop(p, defs) ==
  IF p.curr.type # "EOF"
  THEN Try(Call("parseDef", <<p>>), LAMBDA def :
       Call("parseProgramLoop", <<def.p,
         Append(defs, pGlobal(def.r.value.elem, flattenBinders(def.r.value.binders)))>>))
  ELSE Ret(succ(defs), p)

\* parseProgram() of a parser p: a Result, or Thrown when this.curr is read
\* while it is still undefined (the constructor's advance() failed)
parseProgram(p) ==
  IF p.curr = Undefined THEN Thrown
  ELSE LET l == Call("parseProgramLoop", <<p, <<>>>>) IN
       IF isErr(l.r) THEN l.r
       ELSE LET cj == Call("checkGlobalContext", <<l.r.value>>) IN
            IF isErr(cj) THEN err([tag |-> "Context", error |-> cj.err])
            ELSE succ(l.r.value)

(***************************************************************************)
(* Core terms (ast.ts).  A constructor applied to an argument whose        *)
(* evaluation threw never runs: the construction is Thrown.                *)
(***************************************************************************)
sort(name) == [tag |-> "Sort", name |-> name]

varia(name) == [tag |-> "Var", name |-> name]

lam(name, type, body) ==
  IF type = Thrown \/ body = Thrown THEN Thrown
  ELSE [tag |-> "Lam", name |-> name, type |-> type, body |-> body]

pi(name, type, body) ==
  IF type = Thrown \/ body = Thrown THEN Thrown
  ELSE [tag |-> "Pi", name |-> name, type |-> type, body |-> body]

sig(name, type, body) ==
  IF type = Thrown \/ body = Thrown THEN Thrown
  ELSE [tag |-> "Sig", name |-> name, type |-> type, body |-> body]

\* as may be Undefined
pair(a, b, as) ==
  IF a = Thrown \/ b = Thrown \/ as = Thrown THEN Thrown
  ELSE [tag |-> "Pair", fst |-> a, snd |-> b, as |-> as]

fst(pr) == IF pr = Thrown THEN Thrown ELSE [tag |-> "Fst", pair |-> pr]

snd(pr) == IF pr = Thrown THEN Thrown ELSE [tag |-> "Snd", pair |-> pr]

\* type may be Undefined
letIn(name, type, def, body) ==
  IF type = Thrown \/ def = Thrown \/ body = Thrown THEN Thrown
  ELSE [tag |-> "Let", name |-> name, type |-> type, def |-> def, body |-> body]

app(fun, arg) ==
  IF fun = Thrown \/ arg = Thrown THEN Thrown
  ELSE [tag |-> "App", fun |-> fun, arg |-> arg]

ctxVar(name, type) == [tag |-> "Var", name |-> name, type |-> type]

ctxDef(name, type, def) == [tag |-> "Def", name |-> name, type |-> type, def |-> def]

ctxElem(name, type, def) ==
  IF def # Undefined THEN ctxDef(name, type, def) ELSE ctxVar(name, type)

judgCtx(global, local) == [global |-> global, local |-> local]

\* the node of kind tag (Lam, Pi or Sig) that the ternaries of substInter build
binderNode(tag, name, type, body) ==
  IF tag = "Lam" THEN lam(name, type, body)
  ELSE IF tag = "Pi" THEN pi(name, type, body)
  ELSE sig(name, type, body)

(***************************************************************************)
(* Free variables, fresh names, substitution, alpha-equivalence            *)
(* (definition.ts)                                                         *)
(***************************************************************************)
\* A set of names that contains ThrowMark is the outcome "freeVar threw":
\* no identifier and no fresh name contains the character #.
ThrowMark == <<"#">>

\* freeVar(t): switch (t.tag) on an absent Let type reads a property of
\* undefined.  The ascription of a Pair is not visited.
freeVar(t) ==
  IF t = Undefined THEN {ThrowMark}
  ELSE CASE t.tag = "Sort" -> {}
         [] t.tag = "Var" -> {t.name}
         [] t.tag \in {"Lam", "Pi", "Sig"} ->
              Call("freeVar", <<t.type>>) \cup (Call("freeVar", <<t.body>>) \ {t.name})
         [] t.tag = "Let" ->
              Call("freeVar", <<t.type>>) \cup Call("freeVar", <<t.def>>) \cup (Call("freeVar", <<t.body>>) \ {t.name})
         [] t.tag = "Pair" -> Call("freeVar", <<t.fst>>) \cup Call("freeVar", <<t.snd>>)
         [] t.tag \in {"Fst", "Snd"} -> Call("freeVar", <<t.pair>>)
         [] t.tag = "App" -> Call("freeVar", <<t.fun>>) \cup Call("freeVar", <<t.arg>>)

\* Number(digits)
RECURSIVE DigitsToNat(_)
DigitsToNat(ds) ==
  IF ds = <<>> THEN 0
  ELSE 10 * DigitsToNat(SubSeq(ds, 1, Len(ds) - 1))
       + (CHOOSE d \in 0..9 :
            <<"0","1","2","3","4","5","6","7","8","9">>[d + 1] = ds[Len(ds)])

\* String(n) for a non-negative integer
RECURSIVE NatToDigits(_)
NatToDigits(n) ==
  IF n < 10 THEN << <<"0","1","2","3","4","5","6","7","8","9">>[n + 1] >>
  ELSE NatToDigits(n \div 10)
       \o << <<"0","1","2","3","4","5","6","7","8","9">>[(n % 10) + 1] >>

\* number of trailing characters of s that are digits
RECURSIVE TrailingDigits(_)
TrailingDigits(s) ==
  IF s = <<>> \/ s[Len(s)] \notin Digit THEN 0
  ELSE 1 + TrailingDigits(SubSeq(s, 1, Len(s) - 1))

\* base.match(/_(\d+)$/): [index, digits], or Undefined
SuffixMatch(base) ==
  LET n == TrailingDigits(base) IN
  IF n > 0 /\ Len(base) > n /\ base[Len(base) - n] = "_"
  THEN [index |-> Len(base) - n - 1, digits |-> SubSeq(base, Len(base) - n + 1, Len(base))]
  ELSE Undefined

\* do { cand = `${sliced}_${i}`; i += 1 } while (used.has(cand))
RECURSIVE freshLoop(_, _, _)
freshLoop(sliced, i, used) ==
  LET cand == sliced \o <<"_">> \o NatToDigits(i)
  IN  IF cand \in used THEN freshLoop(sliced, i + 1, used) ELSE cand

freshName(base, used) ==
  IF base \notin used THEN base
  ELSE LET match == SuffixMatch(base)
           i == IF match # Undefined THEN DigitsToNat(match.digits) + 1 ELSE 0
           sliced == IF match # Undefined THEN Take(base, match.index) ELSE base
       IN  freshLoop(sliced, i, used)

substInter(t, v, u, fu) ==
  IF t = Undefined \/ t = Thrown THEN Thrown
  ELSE
  CASE t.tag = "Sort" -> t
    [] t.tag = "Var" -> IF t.name = v THEN u ELSE t
    [] t.tag \in {"Lam", "Pi", "Sig"} ->
         LET x == t.name
             pt == Call("substInter", <<t.type, v, u, fu>>)
         IN  IF x = v THEN binderNode(t.tag, x, pt, t.body)
             ELSE IF x \notin fu
             THEN binderNode(t.tag, x, pt, Call("substInter", <<t.body, v, u, fu>>))
             ELSE LET used == fu \cup {v} \cup Call("freeVar", <<t>>)
                      y == Call("freshName", <<x, used>>)
                      rename == Call("substInter", <<t.body, x, varia(y), {y}>>)
                      body == Call("substInter", <<rename, v, u, fu>>)
                  IN  IF ThrowMark \in used THEN Thrown
                      ELSE binderNode(t.tag, y, pt, body)
    [] t.tag = "Pair" ->
         pair(Call("substInter", <<t.fst, v, u, fu>>), Call("substInter", <<t.snd, v, u, fu>>), Undefined)
    [] t.tag = "Fst" -> fst(Call("substInter", <<t.pair, v, u, fu>>))
    [] t.tag = "Snd" -> snd(Call("substInter", <<t.pair, v, u, fu>>))
    [] t.tag = "Let" ->
         LET x == t.name
             pt == Call("substInter", <<t.type, v, u, fu>>)
             def == Call("substInter", <<t.def, v, u, fu>>)
         IN  IF x = v THEN letIn(x, pt, def, t.body)
             ELSE IF x \notin fu
             THEN letIn(x, pt, def, Call("substInter", <<t.body, v, u, fu>>))
             ELSE LET used == fu \cup {v} \cup Call("freeVar", <<t>>)
                      y == Call("freshName", <<x, used>>)
                      rename == Call("substInter", <<t.body, x, varia(y), {y}>>)
                      body == Call("substInter", <<rename, v, u, fu>>)
                  IN  IF ThrowMark \in used THEN Thrown
                      ELSE letIn(y, pt, def, body)
    [] t.tag = "App" -> app(Call("substInter", <<t.fun, v, u, fu>>), Call("substInter", <<t.arg, v, u, fu>>))

subst(t, v, u) ==
  IF t = Thrown \/ u = Thrown THEN Thrown
  ELSE LET ft == Call("freeVar", <<t>>) IN
       IF ThrowMark \in ft THEN Thrown
       ELSE IF v \notin ft THEN t
       ELSE LET fu == Call("freeVar", <<u>>) IN
            IF ThrowMark \in fu THEN Thrown ELSE Call("substInter", <<t, v, u, fu>>)

\* a && b on outcomes succ(TRUE) / succ(FALSE) / Thrown: b is not evaluated
\* when a is false
AndThen(a, b) == IF isThrow(a) THEN Thrown ELSE IF ~a.value THEN a ELSE b

alphaEq(t, u) ==
  IF t = Undefined \/ t = Thrown \/ u = Thrown THEN Thrown
  ELSE IF u = Undefined THEN Thrown
  ELSE
  CASE t.tag \in {"Sort", "Var"} -> succ(t.tag = u.tag /\ t.name = u.name)
    [] t.tag \in {"Lam", "Pi", "Sig"} ->
         IF t.tag # u.tag THEN succ(FALSE)
         ELSE LET used == {t.name, u.name} \cup Call("freeVar", <<t.body>>) \cup Call("freeVar", <<u.body>>)
                  fresh == Call("freshName", <<t.name, used>>)
                  newVar == varia(fresh)
              IN  IF ThrowMark \in used THEN Thrown
                  ELSE AndThen(Call("alphaEq", <<t.type, u.type>>),
                               Call("alphaEq", <<Call("subst", <<t.body, t.name, newVar>>),
                                       Call("subst", <<u.body, u.name, newVar>>)>>))
    [] t.tag = "Pair" ->
         IF t.tag # u.tag THEN succ(FALSE)
         ELSE AndThen(Call("alphaEq", <<t.fst, u.fst>>), Call("alphaEq", <<t.snd, u.snd>>))
    [] t.tag \in {"Fst", "Snd"} ->
         IF t.tag # u.tag THEN succ(FALSE) ELSE Call("alphaEq", <<t.pair, u.pair>>)
    [] t.tag = "Let" ->
         IF t.tag # u.tag THEN succ(FALSE)
         ELSE LET used == {t.name, u.name} \cup Call("freeVar", <<t.body>>) \cup Call("freeVar", <<u.body>>)
                  fresh == Call("freshName", <<t.name, used>>)
                  newVar == varia(fresh)
              IN  IF ThrowMark \in used THEN Thrown
                  ELSE AndThen(Call("alphaEq", <<t.type, u.type>>),
                       AndThen(Call("alphaEq", <<t.def, u.def>>),
                               Call("alphaEq", <<Call("subst", <<t.body, t.name, newVar>>),
                                       Call("subst", <<u.body, u.name, newVar>>)>>)))
    [] t.tag = "App" ->
         IF t.tag # u.tag THEN succ(FALSE)
         ELSE AndThen(Call("alphaEq", <<t.fun, u.fun>>), Call("alphaEq", <<t.arg, u.arg>>))

(***************************************************************************)
(* Elaborator (trans.ts)                                                   *)
(***************************************************************************)
anon == <<"_">>

\* t ? elab(t) : undefined
elabOpt(t) == IF t # Undefined THEN Call("elabTerm", <<t>>) ELSE Undefined

\* variant of elabNames: only the first name of a group binds
elabNamesFirstOnly(names, type, acc, kind) ==
  IF names = <<>> THEN acc
  ELSE binderNode(kind, Head(names), Call("elabTerm", <<type>>), acc)

\* b.names.reduceRight((acc2, n) => f(n, elabTerm(b.type), acc2), acc)
elabNames(names, type, acc, kind) ==
  IF names = <<>> THEN acc
  ELSE binderNode(kind, Head(names), Call("elabTerm", <<type>>),
                  Call("elabNames", <<Tail(names), type, acc, kind>>))

\* bs.reduceRight(...): kind names the constructor f (lam, pi or sig)
elabBinders(bs, body, kind) ==
  IF bs = <<>> THEN body
  ELSE LET b == Head(bs)
           acc == Call("elabBinders", <<Tail(bs), body, kind>>)
       IN  IF b.tag = "Var" THEN Call("elabNames", <<b.names, b.type, acc, kind>>)
           ELSE letIn(b.name, elabOpt(b.type), Call("elabTerm", <<b.def>>), acc)

\* args.reduce((f, a) => A.app(f, a), head)
elabApply(head, args) ==
  IF args = <<>> THEN head
  ELSE Call("elabApply", <<app(head, Call("elabTerm", <<Head(args)>>)), Tail(args)>>)

elabTerm(t) ==
  CASE t.tag = "Sort" -> sort(t.name)
    [] t.tag = "Variable" -> varia(t.name)
    [] t.tag = "Lambda" -> Call("elabBinders", <<t.binders, Call("elabTerm", <<t.body>>), "Lam">>)
    [] t.tag = "Pi" -> Call("elabBinders", <<t.binders, Call("elabTerm", <<t.body>>), "Pi">>)
    [] t.tag = "Arrow" -> pi(anon, Call("elabTerm", <<t.in>>), Call("elabTerm", <<t.out>>))
    [] t.tag = "Pair" -> pair(Call("elabTerm", <<t.first>>), Call("elabTerm", <<t.second>>), elabOpt(t.type))
    [] t.tag = "First" -> fst(Call("elabTerm", <<t.pair>>))
    [] t.tag = "Second" -> snd(Call("elabTerm", <<t.pair>>))
    [] t.tag = "Sigma" -> Call("elabBinders", <<t.binders, Call("elabTerm", <<t.body>>), "Sig">>)
    [] t.tag = "Prod" -> sig(anon, Call("elabTerm", <<t.first>>), Call("elabTerm", <<t.second>>))
    [] t.tag = "Let" ->
         letIn(t.name,
               IF t.type # Undefined
               THEN Call("elabBinders", <<t.binders, Call("elabTerm", <<t.type>>), "Pi">>) ELSE Undefined,
               Call("elabBinders", <<t.binders, Call("elabTerm", <<t.def>>), "Lam">>),
               Call("elabTerm", <<t.body>>))
    [] t.tag = "Apply" -> Call("elabApply", <<Call("elabTerm", <<Head(t.apply)>>), Tail(t.apply)>>)

\* for (let i = g.local.length - 1; i >= 0; i--): wrap term in the locals
elabLocals(local, term, kind) ==
  IF local = <<>> THEN term
  ELSE LET e == Head(local)
           inner == Call("elabLocals", <<Tail(local), term, kind>>)
       IN  IF e.tag = "Var" THEN binderNode(kind, e.name, Call("elabTerm", <<e.type>>), inner)
           ELSE letIn(e.name, elabOpt(e.type), Call("elabTerm", <<e.def>>), inner)

elabGlobal(g) ==
  IF g.elem.tag = "Var"
  THEN ctxElem(g.elem.name, Call("elabLocals", <<g.local, Call("elabTerm", <<g.elem.type>>), "Pi">>), Undefined)
  ELSE ctxElem(g.elem.name, Call("elabLocals", <<g.local, Call("elabTerm", <<g.elem.type>>), "Pi">>),
               Call("elabLocals", <<g.local, Call("elabTerm", <<g.elem.def>>), "Lam">>))

elabGlobalContext(pgc) == [i \in 1..Len(pgc) |-> Call("elabGlobal", <<pgc[i]>>)]

(***************************************************************************)
(* Normalizer and type checker (typecheck.ts)                              *)
(***************************************************************************)
\* ctx.slice().reverse().find(e => e.name === name): the rightmost element
\* named name, or Undefined
findLast(ctx, name) ==
  LET I == {i \in 1..Len(ctx) : ctx[i].name = name}
  IN  IF I = {} THEN Undefined ELSE ctx[CHOOSE i \in I : \A j \in I : j <= i]

dszNF(jc, t) ==
  IF t = Thrown THEN Thrown
  ELSE
  CASE t.tag = "Sort" -> t
    [] t.tag = "Var" ->
         LET le == findLast(jc.local, t.name) IN
         IF le # Undefined /\ le.tag = "Def" THEN Call("dszNF", <<jc, le.def>>)
         ELSE LET ge == findLast(jc.global, t.name) IN
              IF ge # Undefined /\ ge.tag = "Def" THEN Call("dszNF", <<jc, ge.def>>)
              ELSE t
    [] t.tag = "Lam" -> lam(t.name, Call("dszNF", <<jc, t.type>>), Call("dszNF", <<jc, t.body>>))
    [] t.tag = "Pi" -> pi(t.name, Call("dszNF", <<jc, t.type>>), Call("dszNF", <<jc, t.body>>))
    [] t.tag = "Pair" ->
         pair(Call("dszNF", <<jc, t.fst>>), Call("dszNF", <<jc, t.snd>>),
              IF t.as # Undefined THEN Call("dszNF", <<jc, t.as>>) ELSE Undefined)
    [] t.tag = "Fst" ->
         IF t.pair.tag = "Pair" THEN Call("dszNF", <<jc, t.pair.fst>>) ELSE fst(Call("dszNF", <<jc, t.pair>>))
    [] t.tag = "Snd" ->
         IF t.pair.tag = "Pair" THEN Call("dszNF", <<jc, t.pair.snd>>) ELSE snd(Call("dszNF", <<jc, t.pair>>))
    [] t.tag = "Sig" -> sig(t.name, Call("dszNF", <<jc, t.type>>), Call("dszNF", <<jc, t.body>>))
    [] t.tag = "Let" -> Call("dszNF", <<jc, Call("subst", <<t.body, t.name, t.def>>)>>)
    [] t.tag = "App" -> app(Call("dszNF", <<jc, t.fun>>), Call("dszNF", <<jc, t.arg>>))

headNF(t) ==
  IF t = Thrown THEN Thrown
  ELSE
  CASE t.tag \in {"Sort", "Var", "Lam"} -> t
    [] t.tag = "Pi" -> pi(t.name, Call("headNF", <<t.type>>), Call("headNF", <<t.body>>))
    [] t.tag = "Pair" ->
         pair(Call("headNF", <<t.fst>>), Call("headNF", <<t.snd>>),
              IF t.as # Undefined THEN Call("headNF", <<t.as>>) ELSE Undefined)
    [] t.tag = "Fst" -> fst(Call("headNF", <<t.pair>>))
    [] t.tag = "Snd" -> snd(Call("headNF", <<t.pair>>))
    [] t.tag = "Sig" -> sig(t.name, Call("headNF", <<t.type>>), Call("headNF", <<t.body>>))
    [] t.tag = "Let" ->
         letIn(t.name, IF t.type # Undefined THEN Call("headNF", <<t.type>>) ELSE Undefined,
               Call("headNF", <<t.def>>), Call("headNF", <<t.body>>))
    [] t.tag = "App" ->
         LET fun == Call("headNF", <<t.fun>>) IN
         IF fun = Thrown THEN Thrown
         ELSE IF fun.tag = "Lam" THEN Call("headNF", <<Call("subst", <<fun.body, fun.name, t.arg>>)>>)
         ELSE app(fun, t.arg)

\* local.slice(); local.push(e): the callee's context, the caller's is untouched
pushLocal(jc, e) == judgCtx(jc.global, Append(jc.local, e))

\* the outcome succ(TRUE) / succ(FALSE) / Thrown of ahEq
ahEq(jc, t, u) ==
  LET tWhnf == Call("headNF", <<Call("dszNF", <<jc, t>>)>>)
      uWhnf == Call("headNF", <<Call("dszNF", <<jc, u>>)>>)
  IN  IF tWhnf = Thrown \/ uWhnf = Thrown THEN Thrown
      ELSE IF tWhnf.tag = "Lam"
      THEN Call("ahEq", <<pushLocal(jc, ctxVar(tWhnf.name, tWhnf.type)),
                tWhnf.body, app(uWhnf, varia(tWhnf.name))>>)
      ELSE IF uWhnf.tag = "Lam"
      THEN Call("ahEq", <<pushLocal(jc, ctxVar(uWhnf.name, uWhnf.type)),
                app(tWhnf, varia(uWhnf.name)), uWhnf.body>>)
      ELSE Call("alphaEq", <<tWhnf, uWhnf>>)

\* succ(v) of a value whose computation may have thrown
succT(v) == IF v = Thrown THEN Thrown ELSE succ(v)

\* if (isErr(x)) return x; an exception propagates the same way
Bad(r) == r.tag # "succ"

\* a variant of the Sort rule in which Type has the type Type
inferSortTypeInType(t) == succ(sort("Type"))

\* case "Sort" of typeInfer
inferSort(t) ==
  IF t.name = "Type" THEN err([tag |-> "TypeHasNoType"])
  ELSE succ(sort("Type"))

\* a variant of the Sig rule that accepts every combination of sorts
inferSigAnySorts(jc, t) ==
  LET s0 == Call("typeInfer", <<jc, t.type>>) IN
  IF Bad(s0) THEN s0
  ELSE LET s0NF == Call("headNF", <<Call("dszNF", <<jc, s0.value>>)>>) IN
       IF s0NF = Thrown THEN Thrown
       ELSE IF s0NF.tag # "Sort"
       THEN err([tag |-> "ExpectedSort", actual |-> s0NF])
       ELSE LET s1 == Call("typeInfer", <<pushLocal(jc, ctxVar(t.name, t.type)), t.body>>) IN
            IF Bad(s1) THEN s1
            ELSE LET s1NF == Call("headNF", <<Call("dszNF", <<jc, s1.value>>)>>) IN
                 IF s1NF = Thrown THEN Thrown
                 ELSE IF s1NF.tag # "Sort"
                 THEN err([tag |-> "ExpectedSort", actual |-> s1NF])
                 ELSE succ(s1NF)

\* case "Sig" of typeInfer
inferSig(jc, t) ==
  LET s0 == Call("typeInfer", <<jc, t.type>>) IN
  IF Bad(s0) THEN s0
  ELSE LET s0NF == Call("headNF", <<Call("dszNF", <<jc, s0.value>>)>>) IN
       IF s0NF = Thrown THEN Thrown
       ELSE IF s0NF.tag # "Sort"
       THEN err([tag |-> "ExpectedSort", actual |-> s0NF])
       ELSE LET s1 == Call("typeInfer", <<pushLocal(jc, ctxVar(t.name, t.type)), t.body>>) IN
            IF Bad(s1) THEN s1
            ELSE LET s1NF == Call("headNF", <<Call("dszNF", <<jc, s1.value>>)>>) IN
                 IF s1NF = Thrown THEN Thrown
                 ELSE IF s1NF.tag # "Sort"
                 THEN err([tag |-> "ExpectedSort", actual |-> s1NF])
                 ELSE IF (s0NF.name = "Prop" /\ s1NF.name = "Prop")
                         \/ s1NF.name = "Type"
                 THEN succ(s1NF)
                 ELSE err([tag |-> "ImpossibleCombination",
                           sort0 |-> s0NF.name, sort1 |-> s1NF.name])

\* a variant of the App rule that returns the codomain B as it stands,
\* without substituting the argument
inferAppNoSubst(jc, t) ==
  LET funType == Call("typeInfer", <<jc, t.fun>>) IN
  IF Bad(funType) THEN funType
  ELSE LET funTypeNF == Call("headNF", <<Call("dszNF", <<jc, funType.value>>)>>) IN
       IF funTypeNF = Thrown THEN Thrown
       ELSE IF funTypeNF.tag # "Pi"
       THEN err([tag |-> "ExpectedPi", fun |-> t.fun, actual |-> funTypeNF])
       ELSE LET argType == Call("typeInfer", <<jc, t.arg>>) IN
            IF Bad(argType) THEN argType
            ELSE LET eq == Call("ahEq", <<jc, argType.value, funTypeNF.type>>) IN
                 IF isThrow(eq) THEN Thrown
                 ELSE IF ~eq.value
                 THEN err([tag |-> "TypeMismatch",
                           expected |-> funTypeNF.type,
                           actual |-> argType.value])
                 ELSE succ(funTypeNF.body)

\* case "App" of typeInfer
inferApp(jc, t) ==
  LET funType == Call("typeInfer", <<jc, t.fun>>) IN
  IF Bad(funType) THEN funType
  ELSE LET funTypeNF == Call("headNF", <<Call("dszNF", <<jc, funType.value>>)>>) IN
       IF funTypeNF = Thrown THEN Thrown
       ELSE IF funTypeNF.tag # "Pi"
       THEN err([tag |-> "ExpectedPi", fun |-> t.fun, actual |-> funTypeNF])
       ELSE LET argType == Call("typeInfer", <<jc, t.arg>>) IN
            IF Bad(argType) THEN argType
            ELSE LET eq == Call("ahEq", <<jc, argType.value, funTypeNF.type>>) IN
                 IF isThrow(eq) THEN Thrown
                 ELSE IF ~eq.value
                 THEN err([tag |-> "TypeMismatch",
                           expected |-> funTypeNF.type,
                           actual |-> argType.value])
                 ELSE succT(Call("subst", <<funTypeNF.body, funTypeNF.name, t.arg>>))

typeInfer(jc, t) ==
  CASE t.tag = "Sort" -> inferSort(t)
    [] t.tag = "Var" ->
         LET le == findLast(jc.local, t.name) IN
         IF le # Undefined THEN succ(le.type)
         ELSE LET ge == findLast(jc.global, t.name) IN
              IF ge # Undefined THEN succ(ge.type)
              ELSE err([tag |-> "UnboundVariable", name |-> t.name])
    [] t.tag = "Lam" ->
         LET bodyType == Call("typeInfer", <<pushLocal(jc, ctxVar(t.name, t.type)), t.body>>) IN
         IF Bad(bodyType) THEN bodyType
         ELSE LET termType == pi(t.name, t.type, bodyType.value)
                  s == Call("typeInfer", <<jc, termType>>)
              IN  IF Bad(s) THEN s
                  ELSE LET sNF == Call("headNF", <<Call("dszNF", <<jc, s.value>>)>>) IN
                       IF sNF = Thrown THEN Thrown
                       ELSE IF sNF.tag # "Sort"
                       THEN err([tag |-> "ExpectedSort", actual |-> sNF])
                       ELSE succ(termType)
    [] t.tag = "Pi" ->
         LET s0 == Call("typeInfer", <<jc, t.type>>) IN
         IF Bad(s0) THEN s0
         ELSE LET s0NF == Call("headNF", <<Call("dszNF", <<jc, s0.value>>)>>) IN
              IF s0NF = Thrown THEN Thrown
              ELSE IF s0NF.tag # "Sort"
              THEN err([tag |-> "ExpectedSort", actual |-> s0NF])
              ELSE LET s1 == Call("typeInfer", <<pushLocal(jc, ctxVar(t.name, t.type)), t.body>>) IN
                   IF Bad(s1) THEN s1
                   ELSE LET s1NF == Call("headNF", <<Call("dszNF", <<jc, s1.value>>)>>) IN
                        IF s1NF = Thrown THEN Thrown
                        ELSE IF s1NF.tag # "Sort"
                        THEN err([tag |-> "ExpectedSort", actual |-> s1NF])
                        ELSE succ(s1NF)
    [] t.tag = "Pair" ->
         IF t.as # Undefined
         THEN LET asCheck == Call("typeCheck", <<jc, t, t.as>>) IN
              IF Bad(asCheck) THEN asCheck ELSE succ(t.as)
         ELSE LET firstType == Call("typeInfer", <<jc, t.fst>>) IN
              IF Bad(firstType) THEN firstType
              ELSE LET secondType == Call("typeInfer", <<jc, t.snd>>) IN
                   IF Bad(secondType) THEN secondType
                   ELSE succ(sig(anon, firstType.value, secondType.value))
    [] t.tag = "Fst" ->
         LET pairType == Call("typeInfer", <<jc, t.pair>>) IN
         IF Bad(pairType) THEN pairType
         ELSE LET pairTypeNF == Call("headNF", <<Call("dszNF", <<jc, pairType.value>>)>>) IN
              IF pairTypeNF = Thrown THEN Thrown
              ELSE IF pairTypeNF.tag # "Sig"
              THEN err([tag |-> "ExpectedSigma", pair |-> t.pair, actual |-> pairTypeNF])
              ELSE succ(pairTypeNF.type)
    [] t.tag = "Snd" ->
         LET pairType == Call("typeInfer", <<jc, t.pair>>) IN
         IF Bad(pairType) THEN pairType
         ELSE LET pairTypeNF == Call("headNF", <<Call("dszNF", <<jc, pairType.value>>)>>) IN
              IF pairTypeNF = Thrown THEN Thrown
              ELSE IF pairTypeNF.tag # "Sig"
              THEN err([tag |-> "ExpectedSigma", pair |-> t.pair, actual |-> pairTypeNF])
              ELSE succT(Call("subst", <<pairTypeNF.body, pairTypeNF.name, fst(t.pair)>>))
    [] t.tag = "Sig" -> inferSig(jc, t)
    [] t.tag = "Let" ->
         LET defR == IF t.type # Undefined
                     THEN LET defCheck == Call("typeCheck", <<jc, t.def, t.type>>) IN
                          IF Bad(defCheck) THEN defCheck ELSE succ(t.type)
                     ELSE Call("typeInfer", <<jc, t.def>>)
         IN  IF Bad(defR) THEN defR
             ELSE LET bodyType == Call("typeInfer", <<
                                    pushLocal(jc, ctxDef(t.name, defR.value, t.def)),
                                    t.body>>)
                  IN  IF Bad(bodyType) THEN bodyType
                      ELSE succT(Call("subst", <<bodyType.value, t.name, t.def>>))
    [] t.tag = "App" -> inferApp(jc, t)

typeCheck(jc, t, expected) ==
  IF t.tag = "Pair"
  THEN LET expectedNF == Call("headNF", <<Call("dszNF", <<jc, expected>>)>>) IN
       IF expectedNF = Thrown THEN Thrown
       ELSE IF expectedNF.tag # "Sig"
       THEN err([tag |-> "ExpectedSigma", pair |-> t, actual |-> expectedNF])
       ELSE LET name == expectedNF.name
                fstExpected == expectedNF.type
                fstCheck == Call("typeCheck", <<jc, t.fst, fstExpected>>)
            IN  IF Bad(fstCheck) THEN fstCheck
                ELSE LET sndExpected == Call("subst", <<expectedNF.body, expectedNF.name, t.fst>>) IN
                     IF sndExpected = Thrown THEN Thrown
                     ELSE LET sndCheck == Call("typeCheck", <<jc, t.snd, sndExpected>>) IN
                          IF Bad(sndCheck) THEN sndCheck
                          ELSE LET extendedJc == pushLocal(jc, ctxVar(name, fstExpected))
                                   s == Call("typeInfer", <<extendedJc, sndExpected>>)
                               IN  IF Bad(s) THEN s
                                   ELSE LET sNF == Call("headNF", <<Call("dszNF", <<extendedJc, s.value>>)>>) IN
                                        IF sNF = Thrown THEN Thrown
                                        ELSE IF sNF.tag # "Sort"
                                        THEN err([tag |-> "ExpectedSort", actual |-> sNF])
                                        ELSE succ(TRUE)
  ELSE LET inferred == Call("typeInfer", <<jc, t>>) IN
       IF Bad(inferred) THEN inferred
       ELSE LET eq == Call("ahEq", <<jc, inferred.value, expected>>) IN
            IF isThrow(eq) THEN Thrown
            ELSE IF ~eq.value
            THEN err([tag |-> "TypeMismatch", expected |-> expected,
                      actual |-> inferred.value])
            ELSE succ(TRUE)

\* the closure check(ctx, e) of wellFormed
checkElem(ctx, e) ==
  IF e.tag = "Var"
  THEN LET r == Call("typeInfer", <<ctx, e.type>>) IN
       IF isThrow(r) THEN Thrown
       ELSE IF isErr(r) THEN err([error |-> r.err, at |-> e])
       ELSE IF r.value.tag # "Sort"
       THEN err([error |-> [tag |-> "ExpectedSort", actual |-> r.value], at |-> e])
       ELSE succ(TRUE)
  ELSE LET r == Call("typeCheck", <<ctx, e.def, e.type>>) IN
       IF isThrow(r) THEN Thrown
       ELSE IF isErr(r) THEN err([error |-> r.err, at |-> e])
       ELSE succ(TRUE)

\* the two for loops of wellFormed: es is the part of jc.global (then of
\* jc.local) still to check, g and l are the running contexts
wfLocals(es, g, l) ==
  IF es = <<>> THEN succ(TRUE)
  ELSE LET r == Call("checkElem", <<judgCtx(g, l), Head(es)>>) IN
       IF Bad(r) THEN r ELSE Call("wfLocals", <<Tail(es), g, Append(l, Head(es))>>)

\* a variant of the loop over the globals that does not append the checked
\* element to the running context
wfGlobalsNoPush(es, g, jc) ==
  IF es = <<>> THEN Call("wfLocals", <<jc.local, g, <<>>>>)
  ELSE LET r == Call("checkElem", <<judgCtx(g, <<>>), Head(es)>>) IN
       IF Bad(r) THEN r ELSE Call("wfGlobals", <<Tail(es), g, jc>>)

wfGlobals(es, g, jc) ==
  IF es = <<>> THEN Call("wfLocals", <<jc.local, g, <<>>>>)
  ELSE LET r == Call("checkElem", <<judgCtx(g, <<>>), Head(es)>>) IN
       IF Bad(r) THEN r ELSE Call("wfGlobals", <<Tail(es), Append(g, Head(es)), jc>>)

wellFormed(jc) == Call("wfGlobals", <<jc.global, <<>>, jc>>)

(***************************************************************************)
(* Source texts.  A text is written as a sequence of words; Spell gives    *)
(* the characters of a word and Src joins the words with single blanks     *)
(* into the string handed to the tokenizer.                                *)
(***************************************************************************)
Spell(w) ==
  CASE w = "def"    -> <<"d","e","f">>
    [] w = "var"    -> <<"v","a","r">>
    [] w = "Prop"   -> <<"P","r","o","p">>
    [] w = "Type"   -> <<"T","y","p","e">>
    [] w = "fun"    -> <<"f","u","n">>
    [] w = "forall" -> <<"f","o","r","a","l","l">>
    [] w = "exist"  -> <<"e","x","i","s","t">>
    [] w = "let"    -> <<"l","e","t">>
    [] w = "in"     -> <<"i","n">>
    [] w = "=>"     -> <<"=",">">>
    [] w = "->"     -> <<"-",">">>
    [] w = ":="     -> <<":","=">>
    [] w = "{-"     -> <<"{","-">>
    [] w = "-}"     -> <<"-","}">>
    [] w = "p.1"    -> <<"p",".","1">>
    [] w = "p.2"    -> <<"p",".","2">>
    [] w = "bad"    -> <<"b","a","d">>
    [] w = "id"     -> <<"i","d">>
    [] w = ""       -> <<>>
    [] OTHER        -> <<w>>

RECURSIVE Src(_)
Src(words) ==
  IF words = <<>> THEN <<>>
  ELSE IF Len(words) = 1 THEN Spell(Head(words))
  ELSE Spell(Head(words)) \o <<" ">> \o Src(Tail(words))

\* new Parser(new Tokenizer(code)).parseProgram()
parseSource(code) == Call("parseProgram", <<Parser(Tokenizer(code))>>)

appVars == <<source, pGlobalContext, error, success, successDefs, runIdRef,
             effectPending, crashed>>

tokVars == <<tkz, tkzPrev, tok>>

parseVars == <<pcase, psrc, presult>>

tcVars == <<tcJc, tcTerm, tcOut>>

ctxVars == <<ctxIn, ctxOut>>

defVars == <<dfArgs, dfOut>>

elabVars == <<elIn, elOut>>

libVars == <<ctxVars, defVars, elabVars>>

vars == <<appVars, tokVars, parseVars, tcVars, libVars>>

AppIdle ==
  /\ source = Undefined /\ pGlobalContext = Undefined /\ error = Undefined
  /\ success = Undefined /\ successDefs = Undefined /\ runIdRef = Undefined
  /\ effectPending = Undefined /\ crashed = Undefined

TokIdle == tkz = Undefined /\ tkzPrev = Undefined /\ tok = Undefined

ParseIdle == pcase = Undefined /\ psrc = Undefined /\ presult = Undefined

TCIdle == tcJc = Undefined /\ tcTerm = Undefined /\ tcOut = Undefined

CtxIdle == ctxIn = Undefined /\ ctxOut = Undefined

DefIdle == dfArgs = Undefined /\ dfOut = Undefined

ElabIdle == elIn = Undefined /\ elOut = Undefined

LibIdle == CtxIdle /\ DefIdle /\ ElabIdle

(***************************************************************************)
(* The React pipeline (App.tsx)                                            *)
(***************************************************************************)
\* the number of runs of the effect after which the source is edited no more
MaxRuns == 3

\* the programs typed into the editor
Programs ==
  { <<>>,
    <<"def", "bad", ":", "Prop", ":=", "Type", ";">>,
    <<"A", ":", "Prop", ";", "def", "a", ":", "Prop", ":=", "A", ";">>,
    <<"def", "a", ":", "Prop">>,
    <<"def", "a", ":", "Prop", ":=", "b", ";">>,
    <<"def", "a", ":", "Prop", ":=", "#", ";">>,
    <<"#">>,
    <<"{-", "def", "a", ":", "Prop", ":=", "A", ";">> }

Sources == {Src(w) : w \in Programs}

\* useState<UIError | null>(null)
Null == [tag |-> "null"]

UIError(phase, detail) == [phase |-> phase, detail |-> detail]

\* the text of setSuccess on a successful check
SuccessMessage == "all definitions are well-typed"

\* runUntilContext(code): its Result (or Thrown) and the value that the
\* calls of setPGlobalContext leave in the state
runUntilContext(code) ==
  LET ctxR == Call("parseSource", <<code>>) IN
  IF isThrow(ctxR) THEN [result |-> Thrown, pGlobalContext |-> <<>>]
  ELSE IF isErr(ctxR)
  THEN [result |->
          err(CASE ctxR.err.tag = "Tokenizer" -> UIError("tokenize", ctxR.err.error)
                [] ctxR.err.tag = "Context" -> UIError("context", ctxR.err.error)
                [] OTHER -> UIError("parse", ctxR.err)),
        pGlobalContext |-> <<>>]
  ELSE [result |-> succ(TRUE), pGlobalContext |-> ctxR.value]

\* the call of the function or method named f with the arguments a; the
\* tokenizer's calls are by value: the arguments are evaluated, once,
\* before the body
Call(f, a) ==
  CASE f = "expect" -> expect(a[1], a[2])
    [] f = "advance" -> advance(a[1])
    [] f = "next" -> CHOOSE r \in {next(v) : v \in {a[1]}} : TRUE
    [] f = "matchPatterns" -> CHOOSE r \in {matchPatterns(v[1], v[2], v[3]) : v \in {a}} : TRUE
    [] f = "emitToken" -> CHOOSE r \in {emitToken(v[1], v[2], v[3], v[4]) : v \in {a}} : TRUE
    [] f = "typeInfer" -> typeInfer(a[1], a[2])
    [] f = "Exec" -> Exec(a[1], a[2], a[3])
    [] f = "typeCheck" -> typeCheck(a[1], a[2], a[3])
    [] f = "subst" -> subst(a[1], a[2], a[3])
    [] f = "freeVar" -> freeVar(a[1])
    [] f = "substInter" -> substInter(a[1], a[2], a[3], a[4])
    [] f = "dszNF" -> dszNF(a[1], a[2])
    [] f = "headNF" -> headNF(a[1])
    [] f = "ahEq" -> ahEq(a[1], a[2], a[3])
    [] f = "alphaEq" -> alphaEq(a[1], a[2])
    [] f = "freshName" -> freshName(a[1], a[2])
    [] f = "collect" -> collect(a[1], a[2])
    [] f = "collectAll" -> collectAll(a[1], a[2])
    [] f = "collectBinders" -> collectBinders(a[1], a[2])
    [] f = "pFreeVariables" -> pFreeVariables(a[1])
    [] f = "globalDepsOf" -> globalDepsOf(a[1])
    [] f = "localDepsOf" -> localDepsOf(a[1])
    [] f = "buildDefInfoLoop" -> buildDefInfoLoop(a[1], a[2], a[3])
    [] f = "buildDefInfo" -> buildDefInfo(a[1])
    [] f = "globalDepError" -> globalDepError(a[1], a[2], a[3], a[4])
    [] f = "localDepError" -> localDepError(a[1], a[2], a[3], a[4], a[5])
    [] f = "buildLocals" -> buildLocals(a[1], a[2], a[3], a[4], a[5])
    [] f = "buildDepGraphLoop" -> buildDepGraphLoop(a[1], a[2], a[3], a[4])
    [] f = "buildDepGraph" -> buildDepGraph(a[1], a[2])
    [] f = "dfs" -> dfs(a[1], a[2], a[3])
    [] f = "dfsDeps" -> dfsDeps(a[1], a[2], a[3], a[4], a[5])
    [] f = "detectCycleLoop" -> detectCycleLoop(a[1], a[2], a[3])
    [] f = "detectCycle" -> detectCycle(a[1])
    [] f = "checkGlobalContext" -> checkGlobalContext(a[1])
    [] f = "parseNames" -> parseNames(a[1], a[2])
    [] f = "parseOpenBinder" -> parseOpenBinder(a[1])
    [] f = "parseVariableBinder" -> parseVariableBinder(a[1])
    [] f = "parseClosedBinder" -> parseClosedBinder(a[1])
    [] f = "parseClosedBinders" -> parseClosedBinders(a[1], a[2])
    [] f = "parseBinder" -> parseBinder(a[1])
    [] f = "parseLam" -> parseLam(a[1])
    [] f = "parsePi" -> parsePi(a[1])
    [] f = "parsePair" -> parsePair(a[1])
    [] f = "parseSigma" -> parseSigma(a[1])
    [] f = "parseToEndOfBinder" -> parseToEndOfBinder(a[1])
    [] f = "parseLet" -> parseLet(a[1])
    [] f = "parseAtom" -> parseAtom(a[1])
    [] f = "parseProjLoop" -> parseProjLoop(a[1], a[2])
    [] f = "parseProj" -> parseProj(a[1])
    [] f = "parseAppLoop" -> parseAppLoop(a[1], a[2])
    [] f = "parseApp" -> parseApp(a[1])
    [] f = "parseProdLoop" -> parseProdLoop(a[1], a[2])
    [] f = "parseProd" -> parseProd(a[1])
    [] f = "parseArrow" -> parseArrow(a[1])
    [] f = "parseTerm" -> parseTerm(a[1])
    [] f = "parseDef" -> parseDef(a[1])
    [] f = "parseProgramLoop" -> parseProgramLoop(a[1], a[2])
    [] f = "parseProgram" -> parseProgram(a[1])
    [] f = "elabNames" -> elabNames(a[1], a[2], a[3], a[4])
    [] f = "elabBinders" -> elabBinders(a[1], a[2], a[3])
    [] f = "elabApply" -> elabApply(a[1], a[2])
    [] f = "elabTerm" -> elabTerm(a[1])
    [] f = "elabLocals" -> elabLocals(a[1], a[2], a[3])
    [] f = "elabGlobal" -> elabGlobal(a[1])
    [] f = "elabGlobalContext" -> elabGlobalContext(a[1])
    [] f = "checkElem" -> checkElem(a[1], a[2])
    [] f = "wfLocals" -> wfLocals(a[1], a[2], a[3])
    [] f = "wfGlobals" -> wfGlobals(a[1], a[2], a[3])
    [] f = "wellFormed" -> wellFormed(a[1])
    [] f = "parseSource" -> parseSource(a[1])
    [] f = "runUntilContext" -> runUntilContext(a[1])

\* replace={e => setSource(e)}: an edit that changes the source schedules
\* the effect
Replace(s) ==
  /\ ~crashed /\ ~effectPending /\ runIdRef < MaxRuns
  /\ s # source
  /\ source' = s
  /\ effectPending' = TRUE
  /\ UNCHANGED <<pGlobalContext, error, success, successDefs, runIdRef, crashed>>
  /\ UNCHANGED <<tokVars, parseVars, tcVars, libVars>>

\* useEffect(..., [source]): the callback of startTransition runs at once,
\* so runIdRef.current === id when the result is read.  An exception of
\* parseProgram escapes the effect and unmounts the application.
Effect ==
  /\ ~crashed /\ effectPending
  /\ effectPending' = FALSE
  /\ runIdRef' = runIdRef + 1
  /\ \E run \in {Call("runUntilContext", <<source>>)} :
     /\ pGlobalContext' = run.pGlobalContext
     /\ crashed' = isThrow(run.result)
     /\ IF isThrow(run.result) THEN UNCHANGED <<error, success>>
        ELSE IF isErr(run.result)
        THEN success' = "" /\ error' = run.result.err
        ELSE error' = Null /\ UNCHANGED success
  /\ UNCHANGED <<source, successDefs>>
  /\ UNCHANGED <<tokVars, parseVars, tcVars, libVars>>

\* onClick={runTypeCheck}: an exception of wellFormed ends the handler after
\* its first three state updates
RunTypeCheck ==
  /\ ~crashed /\ ~effectPending
  /\ LET jc == judgCtx(Call("elabGlobalContext", <<pGlobalContext>>), <<>>)
         wf == Call("wellFormed", <<jc>>)
     IN  IF isThrow(wf)
         THEN error' = Null /\ success' = "" /\ successDefs' = <<>>
         ELSE IF isErr(wf)
         THEN /\ error' = UIError("typecheck", wf.err)
              /\ success' = ""
              /\ successDefs' = <<>>
         ELSE /\ error' = Null
              /\ success' = SuccessMessage
              /\ successDefs' = [i \in 1..Len(pGlobalContext) |->
                                   pGlobalContext[i].elem.name]
  /\ UNCHANGED <<source, pGlobalContext, runIdRef, effectPending, crashed>>
  /\ UNCHANGED <<tokVars, parseVars, tcVars, libVars>>

\* the state of the first render: the effect of the mount is pending
Init ==
  /\ source \in Sources
  /\ pGlobalContext = <<>>
  /\ error = Null
  /\ success = ""
  /\ successDefs = <<>>
  /\ runIdRef = 0
  /\ effectPending = TRUE
  /\ crashed = FALSE
  /\ TokIdle /\ ParseIdle /\ TCIdle /\ LibIdle

Next ==
  \/ \E s \in Sources : Replace(s)
  \/ Effect
  \/ RunTypeCheck

Spec == Init /\ [][Next]_vars

\* C1: in the pipeline, once the effect of the last edit has run, the
\* success message of the type check is never shown while the current
\* source fails the tokenize, parse or scope phase.
C1_NoSuccessOnFailedSource ==
  (~crashed /\ ~effectPending /\ success = SuccessMessage)
    => isSucc(Call("parseSource", <<source>>))

(***************************************************************************)
(* A tokenizer driven by repeated calls of next() (tokenize.ts)            *)
(***************************************************************************)
\* the longest source handed to the tokenizer
MaxSrcLen == 6

\* the characters of those sources: the comment brackets and a letter
TokAlphabet == {"{", "-", "}", "a"}

TokSources == UNION {[1..n -> TokAlphabet] : n \in 0..MaxSrcLen}

\* new Tokenizer(src)
InitTok ==
  /\ tkz \in {Tokenizer(src) : src \in TokSources}
  /\ tkzPrev = Undefined
  /\ tok = Undefined
  /\ AppIdle /\ ParseIdle /\ TCIdle /\ LibIdle

\* one call of next(): tok is the returned Result, tkzPrev the tokenizer
\* before the call
CallNext ==
  /\ tkz # Undefined
  /\ \E r \in {Call("next", <<tkz>>)} :
       /\ tok' = r.res
       /\ tkz' = r.tz
  /\ tkzPrev' = tkz
  /\ UNCHANGED <<appVars, parseVars, tcVars, libVars>>

NextTok == CallNext

SpecTok == InitTok /\ [][NextTok]_vars

\* the 0-based index just after the `-}` that balances a comment of nesting
\* depth d when s is read from index i on, or -1 when s ends before it
RECURSIVE BalancedEnd(_, _, _)
BalancedEnd(s, i, d) ==
  IF i + 2 > Len(s) THEN -1
  ELSE IF SubSeq(s, i + 1, i + 2) = <<"{", "-">> THEN BalancedEnd(s, i + 2, d + 1)
  ELSE IF SubSeq(s, i + 1, i + 2) = <<"-", "}">>
  THEN IF d = 1 THEN i + 2 ELSE BalancedEnd(s, i + 2, d - 1)
  ELSE BalancedEnd(s, i + 1, d)

\* C9: block comments nest.  When next() is called at a `{-`, the comment
\* ends at the `-}` that balances it and the call answers what next()
\* answers right after that `-}`; if the input ends before the balancing
\* `-}` the call returns UnclosedComment with the position of the `{-`.
C9_NestedComments ==
  (tok # Undefined /\ StartsWith(Drop(tkzPrev.src, tkzPrev.pos), <<"{", "-">>))
    => LET rest == Drop(tkzPrev.src, tkzPrev.pos)
           e == BalancedEnd(rest, 2, 1)
       IN  IF e = -1
           THEN tok = err([tag |-> "UnclosedComment", pos |-> currentPosition(tkzPrev)])
           ELSE [res |-> tok, tz |-> tkz] = next(advanceText(tkzPrev, Take(rest, e)))

(***************************************************************************)
(* A parser run on a source: new Parser(new Tokenizer(src)).parseProgram() *)
(* (parse.ts).  The sources are declarations, written with and without a   *)
(* prefix, declarations whose body is an operator expression, and          *)
(* declarations cut short by a character or a comment that the tokenizer   *)
(* rejects.                                                                *)
(***************************************************************************)
\* the largest number of operands of an operator expression
MaxOperands == 4

Operands == {"A", "p.1"}

\* the empty word is juxtaposition (application)
Ops == {"->", "&", ""}

\* an expression x1 o1 x2 ... o(n-1) xn
ExprShapes ==
  UNION { {[xs |-> xs, os |-> os] : xs \in [1..n -> Operands],
                                    os \in [1..(n - 1) -> Ops]} :
          n \in 1..MaxOperands }

RECURSIVE ExprWords(_, _)
ExprWords(xs, os) ==
  IF Len(xs) = 1 THEN xs
  ELSE <<Head(xs)>> \o (IF Head(os) = "" THEN <<>> ELSE <<Head(os)>>)
       \o ExprWords(Tail(xs), Tail(os))

ExprSource(e) ==
  Src(<<"def", "t", "(", "A", "p", ":", "Prop", ")", ":", "Prop", ":=">>
      \o ExprWords(e.xs, e.os) \o <<";">>)

\* the parts of a declaration, each with the surface syntax it denotes
NoBody == [w |-> <<>>, t |-> Undefined]

Prefixes == {<<"def">>, <<"var">>, <<>>}

BinderPool ==
  { [w |-> <<>>, l |-> <<>>],
    [w |-> <<"(", "x", ":", "Prop", ")">>,
     l |-> <<pVarElem(<<"x">>, PSort("Prop"))>>] }

TypePool ==
  { [w |-> <<"Prop">>, t |-> PSort("Prop")],
    [w |-> <<"Prop", "->", "Type">>, t |-> Arrow(PSort("Prop"), PSort("Type"))] }

BodyPool ==
  { [w |-> <<"Prop">>, t |-> PSort("Prop")],
    [w |-> <<"fun", "y", ":", "Prop", "=>", "y">>,
     t |-> Lambda(<<varBinder(<< <<"y">> >>, PSort("Prop"))>>, Variable(<<"y">>))] }

DeclShapes ==
  [prefix : Prefixes, binders : BinderPool, type : TypePool,
   body : BodyPool \cup {NoBody}]

DeclWords(d) ==
  d.prefix \o <<"a">> \o d.binders.w \o <<":">> \o d.type.w
  \o (IF d.body = NoBody THEN <<>> ELSE <<":=">> \o d.body.w) \o <<";">>

DeclSource(d) == Src(DeclWords(d))

\* a declaration cut after its first k words by a word the tokenizer rejects
ErrBases ==
  { <<"def", "a", "(", "x", ":", "Prop", ")", ":", "Prop", ":=", "x", ";">>,
    <<"a", ":", "Type", ";", "def", "b", ":", "a", ":=", "a", ";">> }

BadWords == {"#", "{-"}

ErrShapes ==
  UNION { {[base |-> b, k |-> k, bad |-> x] : k \in 0..Len(b), x \in BadWords} :
          b \in ErrBases }

ErrSource(x) == Src(Take(x.base, x.k) \o <<x.bad>>)

\* the shapes of the sources: pcase records which shape psrc was built from
ParseCases ==
  {[kind |-> "expr", shape |-> e] : e \in ExprShapes}
  \cup {[kind |-> "decl", shape |-> d] : d \in DeclShapes}
  \cup {[kind |-> "err", shape |-> x] : x \in ErrShapes}

SourceOf(c) ==
  CASE c.kind = "expr" -> ExprSource(c.shape)
    [] c.kind = "decl" -> DeclSource(c.shape)
    [] c.kind = "err"  -> ErrSource(c.shape)

InitParse ==
  /\ pcase \in ParseCases
  /\ psrc = SourceOf(pcase)
  /\ presult = Undefined
  /\ AppIdle /\ TokIdle /\ TCIdle /\ LibIdle

\* presult is the Result of parseProgram, or Thrown
RunParse ==
  /\ presult = Undefined
  /\ presult' = Call("parseSource", <<psrc>>)
  /\ UNCHANGED <<pcase, psrc, appVars, tokVars, tcVars, libVars>>

NextParse == RunParse

SpecParse == InitParse /\ [][NextParse]_vars

(***************************************************************************)
(* The type checker on its own: wellFormed and typeInfer are applied to    *)
(* judgement contexts drawn from a pool of elements and to terms drawn     *)
(* from a pool of terms.                                                   *)
(***************************************************************************)
MaxGlobals == 3

MaxLocals == 1

\* the element that a one-declaration program elaborates to
ElemOf(words) ==
  Call("elabGlobalContext", <<Call("parseSource", <<Src(words)>>).value>>)[1]

AElem == ElemOf(<<"A", ":", "Prop", ";">>)

aElem == ctxVar(<<"a">>, varia(<<"A">>))

BadElem == ElemOf(<<"def", "bad", ":", "Prop", ":=", "Type", ";">>)

IdElem ==
  ElemOf(<<"def", "id", ":", "Prop", "->", "Prop", ":=",
           "fun", "x", ":", "Prop", "=>", "x", ";">>)

FElem ==
  ElemOf(<<"def", "f", ":", "Prop", "->", "Prop", ":=",
           "fun", "x", ":", "Prop", "=>", "x", "x", ";">>)

IElem == ElemOf(<<"I", ":", "forall", "X", ":", "Prop", ",", "X", "->", "X", ";">>)

TElem == ElemOf(<<"def", "T", ":", "Type", ":=", "Prop", ";">>)

GlobalPool == {AElem, aElem, BadElem, IdElem, FElem, IElem, TElem}

LocalPool == {ctxVar(<<"y">>, varia(<<"A">>)), ctxDef(<<"z">>, sort("Type"), sort("Prop"))}

\* the lists of at most n distinct elements of S
ListsOf(S, n) ==
  UNION {{f \in [1..k -> S] : \A i, j \in 1..k : i # j => f[i] # f[j]} : k \in 0..n}

vA == varia(<<"A">>)

va == varia(<<"a">>)

vId == varia(<<"i", "d">>)

vI == varia(<<"I">>)

vT == varia(<<"T">>)

vx == varia(<<"x">>)

SigTypeType == sig(<<"x">>, sort("Prop"), sort("Prop"))

SigPropProp == sig(<<"x">>, vA, vA)

SigTypeProp == sig(<<"x">>, sort("Prop"), vA)

SigPropType == sig(<<"x">>, vA, sort("Prop"))

TermPool ==
  {sort("Prop"), sort("Type"), vA, va,
   app(vId, vA), app(vId, va), app(vId, vT), app(vA, vA), app(vId, app(vId, vA)),
   app(vI, vA), app(vI, va), app(app(vI, vA), va),
   app(lam(<<"x">>, sort("Prop"), vx), vA),
   SigTypeType, SigPropProp, SigTypeProp, SigPropType,
   sig(<<"x">>, vT, vx), sig(<<"x">>, vA, vT), sig(<<"x">>, va, vA),
   pair(vA, va, Undefined), pair(va, va, Undefined),
   fst(pair(vA, va, Undefined)), snd(pair(va, va, Undefined)),
   lam(<<"x">>, vA, vx), lam(<<"x">>, sort("Prop"), vx),
   letIn(<<"x">>, sort("Prop"), vA, vx), letIn(<<"x">>, Undefined, va, vx)}

InitTC ==
  /\ tcJc \in {judgCtx(g, l) : g \in ListsOf(GlobalPool, MaxGlobals),
                               l \in ListsOf(LocalPool, MaxLocals)}
  /\ tcTerm = Undefined
  /\ tcOut = Undefined
  /\ AppIdle /\ TokIdle /\ ParseIdle /\ LibIdle

\* wellFormed(jc)
RunWellFormed ==
  /\ tcOut = Undefined
  /\ tcOut' = [op |-> "wellFormed", r |-> Call("wellFormed", <<tcJc>>)]
  /\ UNCHANGED <<tcJc, tcTerm, appVars, tokVars, parseVars, libVars>>

\* typeInfer(jc, t)
RunInfer(t) ==
  /\ tcOut = Undefined
  /\ tcTerm' = t
  /\ tcOut' = [op |-> "typeInfer", r |-> Call("typeInfer", <<tcJc, t>>)]
  /\ UNCHANGED <<tcJc, appVars, tokVars, parseVars, libVars>>

NextTC == RunWellFormed \/ (\E t \in TermPool : RunInfer(t))

SpecTC == InitTC /\ [][NextTC]_vars

\* C6: a declaration written without prefix, NAME binders : TYPE := BODY;
\* is accepted and yields the Def element, with BODY as its definition,
\* that the same text prefixed by def yields.
C6_BareFormIsDef ==
  (pcase.kind = "decl" /\ pcase.shape.prefix = <<>> /\ pcase.shape.body # NoBody
   /\ presult # Undefined)
    => /\ isSucc(presult)
       /\ presult = parseSource(DeclSource([pcase.shape EXCEPT !.prefix = <<"def">>]))
       /\ presult.value[1].elem
            = pGlobalElem(<<"a">>, pcase.shape.type.t, pcase.shape.body.t)

\* C7: var NAME binders : TYPE; is accepted and yields the opaque Var
\* element (name, type, no definition) with its parameter binders; a var
\* declaration that carries a := clause is rejected with a parse error.
C7_VarDeclaration ==
  (pcase.kind = "decl" /\ pcase.shape.prefix = <<"var">> /\ presult # Undefined)
    => IF pcase.shape.body = NoBody
       THEN /\ isSucc(presult)
            /\ presult.value
                 = <<pGlobal(pGlobalElem(<<"a">>, pcase.shape.type.t, Undefined),
                             pcase.shape.binders.l)>>
       ELSE isErr(presult) /\ presult.err.tag = "UnexpectedToken"

\* the outcome of the calls of next() on a tokenizer up to the first error
\* or the EOF token, with the tokenizer at that point
RECURSIVE ScanToEnd(_)
ScanToEnd(tz) ==
  LET r == next(tz)
  IN  IF isErr(r.res) \/ r.res.value.type = "EOF" THEN r ELSE ScanToEnd(r.tz)

\* the parser asks for the token after the text: it accepts the text, or
\* rejects it at its end
ReadsPastEnd(text) ==
  LET r == parseSource(text)
  IN  \/ isSucc(r)
      \/ isErr(r) /\ r.err.tag = "Context"
      \/ isErr(r) /\ r.err.tag = "UnexpectedToken" /\ r.err.actual.type = "EOF"

\* C8: parseProgram never throws, and when the tokenizer fails on a token
\* that the parser asks for (the parser reads past the text that precedes
\* the failing token), the result is the error {tag: Tokenizer, error}
\* carrying the tokenizer's error, not an UnexpectedToken error.
C8_TokenizerErrorIsReturned ==
  presult # Undefined
    => /\ ~isThrow(presult)
       /\ LET scan == ScanToEnd(Tokenizer(psrc))
          IN  (isErr(scan.res) /\ ReadsPastEnd(Take(scan.tz.src, scan.tz.pos)))
                => presult = err([tag |-> "Tokenizer", error |-> scan.res.err])

\* the surface term that an operand denotes
OperandTerm(x) ==
  IF x = "p.1" THEN First(Variable(<<"p">>)) ELSE Variable(Spell(x))

\* juxtaposed operands: one operand, or a single n-ary Apply
AppOf(xs) ==
  IF Len(xs) = 1 THEN OperandTerm(xs[1])
  ELSE Apply([i \in 1..Len(xs) |-> OperandTerm(xs[i])])

\* an expression without ->: & is left-associative and binds weaker than
\* application
RECURSIVE ExpectedProd(_, _)
ExpectedProd(xs, os) ==
  LET I == {i \in 1..Len(os) : os[i] = "&"} IN
  IF I = {} THEN AppOf(xs)
  ELSE LET k == CHOOSE i \in I : \A j \in I : j <= i
       IN  Prod(ExpectedProd(SubSeq(xs, 1, k), SubSeq(os, 1, k - 1)),
                AppOf(SubSeq(xs, k + 1, Len(xs))))

\* -> is right-associative and binds weakest
RECURSIVE ExpectedArrow(_, _)
ExpectedArrow(xs, os) ==
  LET I == {i \in 1..Len(os) : os[i] = "->"} IN
  IF I = {} THEN ExpectedProd(xs, os)
  ELSE LET k == CHOOSE i \in I : \A j \in I : i <= j
       IN  Arrow(ExpectedProd(SubSeq(xs, 1, k), SubSeq(os, 1, k - 1)),
                 ExpectedArrow(SubSeq(xs, k + 1, Len(xs)), SubSeq(os, k + 1, Len(os))))

\* C10: precedence, weakest first: -> (right-associative), & (left-
\* associative), application (one n-ary Apply), projection, atom.  The body
\* of a declaration written as operands joined by ->, & and juxtaposition
\* parses to the term that this order prescribes.
C10_Precedence ==
  (pcase.kind = "expr" /\ presult # Undefined)
    => /\ isSucc(presult)
       /\ presult.value[1].elem.def = ExpectedArrow(pcase.shape.xs, pcase.shape.os)

\* C10 witness: `A & p.1 A -> A` has been parsed
C10_Witness ==
  /\ pcase.kind = "expr"
  /\ pcase.shape = [xs |-> <<"A", "p.1", "A", "A">>, os |-> <<"&", "", "->">>]
  /\ isSucc(presult)
  /\ presult.value[1].elem.def
       = Arrow(Prod(Variable(<<"A">>),
                    Apply(<<First(Variable(<<"p">>)), Variable(<<"A">>)>>)),
               Variable(<<"A">>))

\* the error that the check of element e against ctx ends with, Null when
\* e passes: a Var passes when the type inferred for its type is a Sort, a
\* Def when its definition checks against its declared type
ElemError(ctx, e) ==
  IF e.tag = "Var"
  THEN LET r == typeInfer(ctx, e.type) IN
       IF isThrow(r) THEN Thrown
       ELSE IF isErr(r) THEN r.err
       ELSE IF r.value.tag = "Sort" THEN Null
       ELSE [tag |-> "ExpectedSort", actual |-> r.value]
  ELSE LET r == typeCheck(ctx, e.def, e.type) IN
       IF isThrow(r) THEN Thrown ELSE IF isErr(r) THEN r.err ELSE Null

C3_TypeHasNoType ==
  tcOut # Undefined
    => /\ (tcOut.op = "typeInfer" /\ tcTerm = sort("Prop"))
            => tcOut.r = succ(sort("Type"))
       /\ (tcOut.op = "typeInfer" /\ tcTerm = sort("Type"))
            => tcOut.r = err([tag |-> "TypeHasNoType"])
       /\ tcOut.op = "wellFormed"
            => \A k \in 1..Len(tcJc.global) :
                 (/\ tcJc.global[k] = BadElem
                  /\ isSucc(wellFormed(judgCtx(SubSeq(tcJc.global, 1, k - 1), <<>>))))
                   => tcOut.r = err([error |-> [tag |-> "TypeHasNoType"], at |-> BadElem])

\* C3 witness: wellFormed has rejected A : Prop; def bad : Prop := Type;
C3_Witness ==
  /\ tcOut # Undefined /\ tcOut.op = "wellFormed"
  /\ tcJc.global = <<AElem, BadElem>>
  /\ BadElem = ctxDef(<<"b", "a", "d">>, sort("Prop"), sort("Type"))
  /\ tcOut.r = err([error |-> [tag |-> "TypeHasNoType"], at |-> BadElem])

\* C4: typeInfer on App(f, a), where f has a type: when the normalized
\* type of f is not a Pi the result is ExpectedPi with f and that type;
\* when it is Pi(x, T, B) and a has a type not convertible with T the
\* result is TypeMismatch{expected: T, actual: type of a}; otherwise it is
\* subst(B, x, a).  def f : Prop -> Prop := fun x : Prop => x x; is
\* rejected with ExpectedPi.
C4_AppRule ==
  tcOut # Undefined
    => /\ (tcOut.op = "typeInfer" /\ tcTerm.tag = "App")
            => LET funType == typeInfer(tcJc, tcTerm.fun) IN
               isSucc(funType)
                 => LET nf == headNF(dszNF(tcJc, funType.value)) IN
                    IF nf.tag # "Pi"
                    THEN tcOut.r = err([tag |-> "ExpectedPi", fun |-> tcTerm.fun,
                                        actual |-> nf])
                    ELSE LET argType == typeInfer(tcJc, tcTerm.arg) IN
                         isSucc(argType)
                           => IF ahEq(tcJc, argType.value, nf.type) = succ(FALSE)
                              THEN tcOut.r = err([tag |-> "TypeMismatch",
                                                  expected |-> nf.type,
                                                  actual |-> argType.value])
                              ELSE tcOut.r = succ(subst(nf.body, nf.name, tcTerm.arg))
       /\ tcOut.op = "wellFormed"
            => \A k \in 1..Len(tcJc.global) :
                 (/\ tcJc.global[k] = FElem
                  /\ isSucc(wellFormed(judgCtx(SubSeq(tcJc.global, 1, k - 1), <<>>))))
                   => tcOut.r = err([error |-> [tag |-> "ExpectedPi",
                                                fun |-> varia(<<"x">>),
                                                actual |-> sort("Prop")],
                                     at |-> FElem])

\* C4 witness: with A : Prop and I : forall X : Prop, X -> X in the
\* context, I A has the type A -> A, the codomain with A substituted for X
C4_Witness ==
  /\ tcOut # Undefined /\ tcOut.op = "typeInfer"
  /\ tcJc.global = <<AElem, IElem>>
  /\ tcTerm = app(vI, vA)
  /\ tcOut.r = succ(pi(anon, vA, vA))

\* C5: typeInfer on Sig(x, T, B), where the type of T normalizes to the
\* sort s0 and the type of B under x : T to the sort s1: the result is s1
\* when (s0 = Prop and s1 = Prop) or s1 = Type, and ImpossibleCombination
\* {s0, s1} otherwise; so for each of the four combinations of Prop, Type.
C5_SigRule ==
  (tcOut # Undefined /\ tcOut.op = "typeInfer" /\ tcTerm.tag = "Sig")
    => /\ LET s0 == typeInfer(tcJc, tcTerm.type)
              s1 == typeInfer(pushLocal(tcJc, ctxVar(tcTerm.name, tcTerm.type)),
                              tcTerm.body)
          IN  (isSucc(s0) /\ isSucc(s1))
                => LET s0NF == headNF(dszNF(tcJc, s0.value))
                       s1NF == headNF(dszNF(tcJc, s1.value))
                   IN  (s0NF.tag = "Sort" /\ s1NF.tag = "Sort")
                         => IF (s0NF.name = "Prop" /\ s1NF.name = "Prop")
                               \/ s1NF.name = "Type"
                            THEN tcOut.r = succ(sort(s1NF.name))
                            ELSE tcOut.r = err([tag |-> "ImpossibleCombination",
                                                sort0 |-> s0NF.name,
                                                sort1 |-> s1NF.name])
       /\ (tcJc.global = <<AElem>> /\ tcJc.local = <<>>)
            => /\ tcTerm = SigPropProp => tcOut.r = succ(sort("Prop"))
               /\ tcTerm = SigPropType => tcOut.r = succ(sort("Type"))
               /\ tcTerm = SigTypeType => tcOut.r = succ(sort("Type"))
               /\ tcTerm = SigTypeProp
                    => tcOut.r = err([tag |-> "ImpossibleCombination",
                                      sort0 |-> "Type", sort1 |-> "Prop"])

\* C5 witness: with A : Prop, the pair type of x : Prop and A combines
\* the sorts Type and Prop and is rejected
C5_Witness ==
  /\ tcOut # Undefined /\ tcOut.op = "typeInfer"
  /\ tcJc = judgCtx(<<AElem>>, <<>>)
  /\ tcTerm = SigTypeProp
  /\ isErr(tcOut.r) /\ tcOut.r.err.tag = "ImpossibleCombination"

(***************************************************************************)
(* The scope checker on its own: checkGlobalContext is applied to lists of *)
(* declarations drawn, with repetition, from a pool.                       *)
(***************************************************************************)
MaxDecls == 3

\* the declaration that a one-declaration text parses to
DeclOf(words) ==
  Call("parseProgramLoop", <<Parser(Tokenizer(Src(words))), <<>>>>).r.value[1]

DeclPool ==
  { DeclOf(<<"a", ":", "Prop", ";">>),
    DeclOf(<<"def", "a", ":", "Prop", ":=", "b", ";">>),
    DeclOf(<<"def", "b", ":", "Prop", ":=", "a", ";">>),
    DeclOf(<<"def", "b", ":", "Prop", ":=", "c", ";">>),
    DeclOf(<<"def", "c", ":", "Prop", ":=", "a", ";">>),
    DeclOf(<<"def", "c", ":", "b", ":=", "Prop", ";">>),
    DeclOf(<<"def", "a", ":", "Prop", ":=", "a", ";">>),
    DeclOf(<<"def", "b", ":", "d", ":=", "Prop", ";">>),
    DeclOf(<<"b", "(", "x", ":", "a", ")", "(", "a", ":", "x", ")", ":", "Prop", ";">>),
    DeclOf(<<"c", "(", "x", ":", "Prop", ")", "(", "x", ":", "Prop", ")", ":", "Prop", ";">>),
    DeclOf(<<"c", "(", "y", ":", "x", ")", "(", "x", ":", "Prop", ")", ":", "Prop", ";">>),
    DeclOf(<<"def", "c", "(", "x", ":", "Prop", ")", "(", "y", ":", "x", ")", ":", "x", ":=", "y", ";">>),
    DeclOf(<<"b", "(", "x", ":", "x", ")", ":", "Prop", ";">>),
    DeclOf(<<"def", "a", "(", "a", ":", "Prop", ")", ":", "Prop", ":=", "a", ";">>) }

InitCtx ==
  /\ ctxIn \in UNION {[1..n -> DeclPool] : n \in 0..MaxDecls}
  /\ ctxOut = Undefined
  /\ AppIdle /\ TokIdle /\ ParseIdle /\ TCIdle /\ DefIdle /\ ElabIdle

\* checkGlobalContext(ctx)
RunCheckContext ==
  /\ ctxOut = Undefined
  /\ ctxOut' = Call("checkGlobalContext", <<ctxIn>>)
  /\ UNCHANGED <<ctxIn, appVars, tokVars, parseVars, tcVars, defVars, elabVars>>

NextCtx == RunCheckContext

SpecCtx == InitCtx /\ [][NextCtx]_vars

\* the names of the globals of a declaration list
GlobalNames(ctx) == {ctx[i].elem.name : i \in 1..Len(ctx)}

\* the places <<i, k>> of a declaration list at which a name is repeated:
\* k = 0 for the global name of declaration i, k > 0 for its k-th local
Dups(ctx) ==
  {<<i, 0>> : i \in {i \in 1..Len(ctx) : \E j \in 1..(i - 1) : ctx[j].elem.name = ctx[i].elem.name}}
  \cup UNION {{<<i, k>> : k \in {k \in 1..Len(ctx[i].local) :
                                   \E j \in 1..(k - 1) : ctx[i].local[j].name = ctx[i].local[k].name}}
              : i \in 1..Len(ctx)}

\* the first place of a non-empty set of places, in scanning order
FirstPlace(S) ==
  CHOOSE p \in S : \A q \in S : p[1] < q[1] \/ (p[1] = q[1] /\ p[2] <= q[2])

\* C11: checkGlobalContext rejects a list in which two globals share a
\* name, or a local list repeats a name, with the Duplicate error of the
\* first repetition met when scanning the declarations in order (global
\* name, then locals left to right); without repetition it returns no
\* Duplicate error.
C11_Duplicates ==
  ctxOut # Undefined
    => IF Dups(ctxIn) = {}
       THEN isSucc(ctxOut) \/ ctxOut.err.tag \notin {"DuplicateGlobal", "DuplicateLocal"}
       ELSE LET p == FirstPlace(Dups(ctxIn)) IN
            ctxOut = err(IF p[2] = 0
                         THEN [tag |-> "DuplicateGlobal", name |-> ctxIn[p[1]].elem.name]
                         ELSE [tag |-> "DuplicateLocal",
                               name |-> ctxIn[p[1]].local[p[2]].name])

\* C11 witness: the second declaration repeats a local name and the third
\* repeats the global name a; the local repetition is reported
C11_Witness ==
  /\ ctxOut = err([tag |-> "DuplicateLocal", name |-> <<"x">>])
  /\ Len(ctxIn) = 3
  /\ ctxIn[1].elem.name = <<"a">> /\ ctxIn[3].elem.name = <<"a">>

\* the free names of the surface terms ts, as a set
FreeNames(ts) == UNION {Range(pFreeVariables(t)) : t \in ts}

\* the type, and the definition when there is one, of an element
TermsOf(e, kind) ==
  IF kind = "type" THEN (IF e.type # Undefined THEN {e.type} ELSE {})
  ELSE (IF e.tag = "Def" THEN {e.def} ELSE {})

\* the reference errors of place <<i, k>>
RefErrors(ctx, i, k) ==
  IF k = 0
  THEN LET g == ctx[i]
           bound == {g.local[j].name : j \in 1..Len(g.local)}
       IN  UNION {{IF n = g.elem.name
                   THEN [tag |-> "SelfReference", name |-> n, kind |-> kind]
                   ELSE [tag |-> "Undefined", name |-> n, in |-> g.elem.name, kind |-> kind]
                   : n \in {n \in FreeNames(TermsOf(g.elem, kind)) \ bound :
                              n = g.elem.name \/ n \notin GlobalNames(ctx)}}
                  : kind \in {"type", "def"}}
  ELSE LET e == ctx[i].local[k]
           earlier == {ctx[i].local[j].name : j \in 1..(k - 1)}
       IN  UNION {{IF n = e.name
                   THEN [tag |-> "SelfReference", name |-> n, kind |-> kind]
                   ELSE [tag |-> "Undefined", name |-> n, in |-> e.name, kind |-> kind]
                   : n \in {n \in FreeNames(TermsOf(e, kind)) :
                              n = e.name \/ (n \notin earlier /\ n \notin GlobalNames(ctx))}}
                  : kind \in {"type", "def"}}

\* the places with a reference error
BadRefs(ctx) ==
  {p \in UNION {{<<i, k>> : k \in 0..Len(ctx[i].local)} : i \in 1..Len(ctx)} :
     RefErrors(ctx, p[1], p[2]) # {}}

\* C12: a global may name any declared global whatever the order of the
\* declarations; a local may name a global or an earlier local of its
\* declaration; a name that is neither yields Undefined and an element's
\* own name yields SelfReference (the error of the first offending
\* element); a list without such a dependency gets neither error.
C12_References ==
  (ctxOut # Undefined /\ Dups(ctxIn) = {})
    => IF BadRefs(ctxIn) = {}
       THEN isSucc(ctxOut) \/ ctxOut.err.tag \notin {"SelfReference", "Undefined"}
       ELSE LET p == FirstPlace(BadRefs(ctxIn)) IN
            isErr(ctxOut) /\ ctxOut.err \in RefErrors(ctxIn, p[1], p[2])

\* C12 witness: def c : b := Prop; def b : Prop := a; a : Prop; is
\* accepted, each global naming one declared after it
C12_Witness ==
  /\ ctxOut = succ(TRUE)
  /\ Len(ctxIn) = 3
  /\ ctxIn[1] = DeclOf(<<"def", "c", ":", "b", ":=", "Prop", ";">>)
  /\ ctxIn[2] = DeclOf(<<"def", "b", ":", "Prop", ":=", "a", ";">>)
  /\ ctxIn[3] = DeclOf(<<"a", ":", "Prop", ";">>)

\* g depends on h: h is free in the declared type or the body of g and is
\* not bound by the parameters of g
DependsOn(ctx) ==
  {<<ctx[i].elem.name, n>> :
     i \in 1..Len(ctx),
     n \in GlobalNames(ctx)}
  \cap UNION {{<<ctx[i].elem.name, n>> :
                 n \in FreeNames(TermsOf(ctx[i].elem, "type") \cup TermsOf(ctx[i].elem, "def"))
                       \ {ctx[i].local[j].name : j \in 1..Len(ctx[i].local)}}
              : i \in 1..Len(ctx)}

\* the names reachable from g in one or more steps of E, by at most n rounds
RECURSIVE ReachFrom(_, _, _)
ReachFrom(E, S, n) ==
  LET T == S \cup {e[2] : e \in {e \in E : e[1] \in S}}
  IN  IF n = 0 \/ T = S THEN S ELSE ReachFrom(E, T, n - 1)

HasCycle(ctx) ==
  LET E == DependsOn(ctx) IN
  \E g \in GlobalNames(ctx) :
    g \in ReachFrom(E, {e[2] : e \in {e \in E : e[1] = g}}, Len(ctx))

\* C13: for a list with unique names, no undefined reference and no
\* self-reference, checkGlobalContext returns a Cycle error exactly when
\* the graph of the dependencies between globals contains a cycle, and
\* accepts the list otherwise.
C13_CycleIffCyclic ==
  (ctxOut # Undefined /\ Dups(ctxIn) = {} /\ BadRefs(ctxIn) = {})
    => IF HasCycle(ctxIn)
       THEN isErr(ctxOut) /\ ctxOut.err.tag = "Cycle"
       ELSE ctxOut = succ(TRUE)

(***************************************************************************)
(* Substitution and alpha-equivalence on their own: subst and alphaEq are  *)
(* applied to core terms drawn from a pool.                                *)
(***************************************************************************)
nx == <<"x">>

ny == <<"y">>

DefNames == {nx, ny}

DefAtoms == {varia(nx), varia(ny), sort("Prop")}

DefTerms ==
  DefAtoms
  \cup {binderNode(tag, n, sort("Prop"), b) :
          tag \in {"Lam", "Pi", "Sig"}, n \in {nx, ny, anon},
          b \in {varia(nx), varia(ny), app(varia(nx), varia(ny))}}
  \cup {lam(nx, varia(nx), varia(nx)), pi(ny, varia(nx), varia(ny)),
        sig(anon, varia(ny), varia(nx)),
        app(varia(nx), varia(ny)), app(varia(ny), varia(ny)),
        pair(varia(nx), varia(ny), Undefined),
        pair(varia(nx), varia(ny), sig(anon, varia(nx), varia(ny))),
        fst(varia(nx)), snd(varia(ny)),
        letIn(nx, sort("Prop"), varia(ny), varia(nx)),
        letIn(ny, sort("Prop"), varia(ny), app(varia(nx), varia(ny))),
        letIn(anon, sort("Prop"), varia(ny), varia(nx)),
        letIn(ny, Undefined, varia(nx), varia(ny)),
        lam(nx, sort("Prop"), lam(ny, sort("Prop"), app(varia(nx), varia(ny)))),
        lam(ny, sort("Prop"), lam(nx, sort("Prop"), app(varia(ny), varia(nx)))),
        lam(ny, sort("Prop"),
            lam(<<"y", "_", "0">>, sort("Prop"),
                app(app(varia(nx), varia(ny)), varia(<<"y", "_", "0">>))))}

InitDef ==
  /\ dfArgs \in [t : DefTerms, v : DefNames, u : DefTerms]
  /\ dfOut = Undefined
  /\ AppIdle /\ TokIdle /\ ParseIdle /\ TCIdle /\ CtxIdle /\ ElabIdle

\* subst(t, v, u)
RunSubst ==
  /\ dfOut = Undefined
  /\ dfOut' = [op |-> "subst", r |-> Call("subst", <<dfArgs.t, dfArgs.v, dfArgs.u>>)]
  /\ UNCHANGED <<dfArgs, appVars, tokVars, parseVars, tcVars, ctxVars, elabVars>>

\* alphaEq(t, u)
RunAlphaEq ==
  /\ dfOut = Undefined
  /\ dfOut' = [op |-> "alphaEq", r |-> Call("alphaEq", <<dfArgs.t, dfArgs.u>>)]
  /\ UNCHANGED <<dfArgs, appVars, tokVars, parseVars, tcVars, ctxVars, elabVars>>

NextDef == RunSubst \/ RunAlphaEq

SpecDef == InitDef /\ [][NextDef]_vars

\* C14: for all core terms t, u and every name v, subst(t, v, u) is a term
\* and freeVar(subst(t, v, u)) is a subset of (freeVar(t) \ {v}) union
\* freeVar(u).
C14_SubstFreeVars ==
  (dfOut # Undefined /\ dfOut.op = "subst")
    => /\ dfOut.r # Thrown
       /\ ThrowMark \notin freeVar(dfArgs.t) \cup freeVar(dfArgs.u) \cup freeVar(dfOut.r)
       /\ freeVar(dfOut.r) \subseteq (freeVar(dfArgs.t) \ {dfArgs.v}) \cup freeVar(dfArgs.u)

\* C15: alphaEq is reflexive, symmetric and transitive on core terms, Let
\* terms without type and Pair terms with ascription included, and a
\* binder named _ is alpha-equal to the same binder under another name
\* that is not free in its body.
C15_AlphaEquivalence ==
  (dfOut # Undefined /\ dfOut.op = "alphaEq")
    => LET t == dfArgs.t
           u == dfArgs.u
       IN  /\ dfOut.r # Thrown
           /\ t = u => dfOut.r = succ(TRUE)
           /\ dfOut.r = alphaEq(u, t)
           /\ \A w \in DefTerms :
                (dfOut.r = succ(TRUE) /\ alphaEq(u, w) = succ(TRUE))
                  => alphaEq(t, w) = succ(TRUE)
           /\ (/\ t.tag \in {"Lam", "Pi", "Sig", "Let"}
               /\ u.tag = t.tag
               /\ t.name = anon
               /\ u = [t EXCEPT !.name = u.name]
               /\ {anon, u.name} \cap freeVar(t.body) = {})
                => dfOut.r = succ(TRUE)

(***************************************************************************)
(* Conversion and normalization on their own: ahEq, headNF(dszNF(jc, t))   *)
(* and headNF are applied to terms of a pool, in contexts built from a     *)
(* pool of declarations and definitions.                                   *)
(***************************************************************************)
MaxConvGlobals == 2

vp == varia(<<"p">>)

vf == varia(<<"f">>)

vy == varia(<<"y">>)

vb == varia(<<"b">>)

\* the core term of  let b : Prop := (let c := A in c) in b
NestedLet ==
  letIn(<<"b">>, sort("Prop"), letIn(<<"c">>, Undefined, vA, varia(<<"c">>)), vb)

ConvGlobalPool ==
  { AElem, aElem,
    ctxDef(<<"x">>, sort("Prop"), vA),
    ctxDef(<<"p">>, sig(anon, vA, vA), pair(va, va, Undefined)),
    ctxDef(<<"f">>, pi(anon, vA, vA), lam(<<"y">>, vA, vy)),
    ctxDef(<<"x">>, sort("Prop"), NestedLet) }

ConvLocalPool == {ctxDef(<<"x">>, vA, va), ctxVar(<<"x">>, sort("Prop"))}

ConvTerms ==
  { sort("Prop"), vA, va, vx, vp, vf,
    fst(vp), app(vf, va),
    fst(pair(va, vA, Undefined)), snd(pair(va, vA, sig(anon, vA, sort("Prop")))),
    pi(<<"x">>, sort("Prop"), vx), pi(<<"x">>, sort("Prop"), vA),
    lam(<<"y">>, vA, vy), lam(<<"y">>, sort("Prop"), vy), lam(<<"z">>, vA, varia(<<"z">>)),
    pair(va, va, Undefined),
    app(lam(<<"y">>, vA, vy), va),
    letIn(<<"b">>, sort("Prop"), vA, vb), letIn(<<"b">>, Undefined, vA, vb),
    letIn(<<"b">>, sort("Prop"), vA, app(vf, vb)),
    NestedLet }

InitConv ==
  /\ tcJc \in {judgCtx(g, l) : g \in ListsOf(ConvGlobalPool, MaxConvGlobals),
                               l \in ListsOf(ConvLocalPool, 1)}
  /\ tcTerm = Undefined
  /\ tcOut = Undefined
  /\ AppIdle /\ TokIdle /\ ParseIdle /\ LibIdle

\* ahEq(jc, t, u)
RunAhEq(t, u) ==
  /\ tcOut = Undefined
  /\ tcTerm' = <<t, u>>
  /\ tcOut' = [op |-> "ahEq", r |-> Call("ahEq", <<tcJc, t, u>>)]
  /\ UNCHANGED <<tcJc, appVars, tokVars, parseVars, libVars>>

\* headNF(dszNF(jc, t))
RunNormalize(t) ==
  /\ tcOut = Undefined
  /\ tcTerm' = t
  /\ tcOut' = [op |-> "normalize", r |-> Call("headNF", <<Call("dszNF", <<tcJc, t>>)>>)]
  /\ UNCHANGED <<tcJc, appVars, tokVars, parseVars, libVars>>

\* headNF(t)
RunHeadNF(t) ==
  /\ tcOut = Undefined
  /\ tcTerm' = t
  /\ tcOut' = [op |-> "headNF", r |-> Call("headNF", <<t>>)]
  /\ UNCHANGED <<tcJc, appVars, tokVars, parseVars, libVars>>

NextConv ==
  \/ \E t, u \in ConvTerms : RunAhEq(t, u)
  \/ \E t \in ConvTerms : RunNormalize(t)
  \/ \E t \in ConvTerms : RunHeadNF(t)

SpecConv == InitConv /\ [][NextConv]_vars

\* the binding of name that is visible in jc: the rightmost local, or
\* without one the rightmost global, or Undefined
Visible(jc, name) ==
  IF findLast(jc.local, name) # Undefined THEN findLast(jc.local, name)
  ELSE findLast(jc.global, name)

\* C16: in a context in which the visible binding of x is a Def with body
\* d, Var(x) and d are convertible.
C16_DeltaClosure ==
  (tcOut # Undefined /\ tcOut.op = "ahEq" /\ tcTerm[1].tag = "Var")
    => LET e == Visible(tcJc, tcTerm[1].name) IN
       (e # Undefined /\ e.tag = "Def" /\ tcTerm[2] = e.def)
         => tcOut.r = succ(TRUE)

\* C17: with t' and u' the normal forms headNF(dszNF(jc, .)) of t and u:
\* when exactly one of them is a Lam(x, T, b), ahEq is the conversion of b
\* with App(other, Var(x)) under jc extended by x : T; in every other
\* case, both being Lam included, it is alphaEq(t', u').
C17_EtaOrAlpha ==
  (tcOut # Undefined /\ tcOut.op = "ahEq")
    => LET tWhnf == headNF(dszNF(tcJc, tcTerm[1]))
           uWhnf == headNF(dszNF(tcJc, tcTerm[2]))
       IN  (tWhnf # Thrown /\ uWhnf # Thrown)
             => IF tWhnf.tag = "Lam" /\ uWhnf.tag # "Lam"
                THEN tcOut.r = ahEq(pushLocal(tcJc, ctxVar(tWhnf.name, tWhnf.type)),
                                    tWhnf.body, app(uWhnf, varia(tWhnf.name)))
                ELSE IF uWhnf.tag = "Lam" /\ tWhnf.tag # "Lam"
                THEN tcOut.r = ahEq(pushLocal(tcJc, ctxVar(uWhnf.name, uWhnf.type)),
                                    app(tWhnf, varia(uWhnf.name)), uWhnf.body)
                ELSE tcOut.r = alphaEq(tWhnf, uWhnf)

\* C18: the normalizer of conversion is idempotent: where
\* N(t) = headNF(dszNF(jc, t)) has a value, N(N(t)) = N(t).
C18_NormalizeIdempotent ==
  (tcOut # Undefined /\ tcOut.op = "normalize" /\ tcOut.r # Thrown)
    => headNF(dszNF(tcJc, tcOut.r)) = tcOut.r

\* C19: headNF reduces a let: headNF(Let(x, _, d, b)) is
\* headNF(subst(b, x, d)), and is not a Let node.
C19_HeadNFLet ==
  (tcOut # Undefined /\ tcOut.op = "headNF" /\ tcTerm.tag = "Let")
    => /\ tcOut.r = headNF(subst(tcTerm.body, tcTerm.name, tcTerm.def))
       /\ tcOut.r.tag # "Let"

(***************************************************************************)
(* The elaborator on its own: elabTerm is applied to a binder term.        *)
(***************************************************************************)
MaxBinders == 2

MaxNames == 2

ElabTypes == {PSort("Prop"), Variable(<<"A">>)}

ElabGroups ==
  {varBinder(ns, ty) : ns \in UNION {[1..n -> DefNames] : n \in 1..MaxNames}, ty \in ElabTypes}
    \cup {defBinder(<<"z">>, Undefined, Variable(nx))}

ElabBodies == {Variable(nx), Apply(<<Variable(nx), Variable(ny)>>)}

ElabPool ==
  {[tag |-> q, binders |-> bs, body |-> b] :
     q \in {"Lambda", "Pi", "Sigma"},
     bs \in UNION {[1..n -> ElabGroups] : n \in 1..MaxBinders},
     b \in ElabBodies}

InitElab ==
  /\ elIn \in ElabPool
  /\ elOut = Undefined
  /\ AppIdle /\ TokIdle /\ ParseIdle /\ TCIdle /\ CtxIdle /\ DefIdle

\* elabTerm(t)
RunElab ==
  /\ elOut = Undefined
  /\ \E r \in {Call("elabTerm", <<elIn>>)} : elOut' = r
  /\ UNCHANGED <<elIn, appVars, tokVars, parseVars, tcVars, ctxVars, defVars>>

NextElab == RunElab

SpecElab == InitElab /\ [][NextElab]_vars

\* the core constructor of a surface binder term
KindOf(q) == IF q = "Lambda" THEN "Lam" ELSE IF q = "Pi" THEN "Pi" ELSE "Sig"

\* the binders of bs one name at a time, left to right
RECURSIVE Singles(_)
Singles(bs) ==
  IF bs = <<>> THEN <<>>
  ELSE IF Head(bs).tag = "Var"
       THEN [i \in 1..Len(Head(bs).names) |-> varBinder(<<Head(bs).names[i]>>, Head(bs).type)]
              \o Singles(Tail(bs))
       ELSE <<Head(bs)>> \o Singles(Tail(bs))

\* the nest of one core node for each single binder of ss, around body
RECURSIVE Nest(_, _, _)
Nest(kind, ss, body) ==
  IF ss = <<>> THEN body
  ELSE IF Head(ss).tag = "Var"
       THEN [tag |-> kind, name |-> Head(ss).names[1], type |-> elabTerm(Head(ss).type),
             body |-> Nest(kind, Tail(ss), body)]
       ELSE [tag |-> "Let", name |-> Head(ss).name, type |-> Undefined,
             def |-> elabTerm(Head(ss).def), body |-> Nest(kind, Tail(ss), body)]

\* the binders of t, a Lambda, Pi or Sigma, nested: one term per binder
RECURSIVE Nested(_, _, _)
Nested(q, ss, body) ==
  IF ss = <<>> THEN body
  ELSE [tag |-> q, binders |-> <<Head(ss)>>, body |-> Nested(q, Tail(ss), body)]

\* C20: elaborating a Lambda, Pi or Sigma with grouped binders gives one
\* core binder of the same kind for each surface name, nested in
\* left-to-right order, each with the elaborated type of its group, and
\* this is the elaboration of the nested single binders.
C20_GroupedBinders ==
  elOut # Undefined
    => LET ss == Singles(elIn.binders) IN
       /\ elOut = Nest(KindOf(elIn.tag), ss, elabTerm(elIn.body))
       /\ elOut = elabTerm(Nested(elIn.tag, ss, elIn.body))

\* a Sigma of two groups, the first of two names, has been elaborated
C20_Witness ==
  /\ elOut # Undefined
  /\ elIn.tag = "Sigma"
  /\ Len(elIn.binders) = 2
  /\ elIn.binders[1].tag = "Var"
  /\ Len(elIn.binders[1].names) = 2
  /\ elIn.binders[1].names[1] # elIn.binders[1].names[2]

(***************************************************************************)
(* Reference substitution, for comparison with subst: free names with the  *)
(* optional parts included, capture-avoiding replacement with names of a   *)
(* private supply, and alpha-equivalence by pairing of binders.            *)
(***************************************************************************)
RECURSIVE RefFV(_)
RefFV(t) ==
  IF t = Undefined THEN {}
  ELSE CASE t.tag = "Sort" -> {}
         [] t.tag = "Var" -> {t.name}
         [] t.tag \in {"Lam", "Pi", "Sig"} -> RefFV(t.type) \cup (RefFV(t.body) \ {t.name})
         [] t.tag = "Let" -> RefFV(t.type) \cup RefFV(t.def) \cup (RefFV(t.body) \ {t.name})
         [] t.tag = "Pair" -> RefFV(t.fst) \cup RefFV(t.snd) \cup RefFV(t.as)
         [] t.tag \in {"Fst", "Snd"} -> RefFV(t.pair)
         [] t.tag = "App" -> RefFV(t.fun) \cup RefFV(t.arg)

RefSupply == << <<"w", "1">>, <<"w", "2">>, <<"w", "3">>, <<"w", "4">> >>

RefFresh(avoid) == RefSupply[CHOOSE i \in 1..Len(RefSupply) :
                               /\ RefSupply[i] \notin avoid
                               /\ \A j \in 1..(i - 1) : RefSupply[j] \in avoid]

RECURSIVE RefSubst(_, _, _)
RefSubst(t, v, u) ==
  IF t = Undefined THEN Undefined
  ELSE CASE t.tag = "Sort" -> t
         [] t.tag = "Var" -> IF t.name = v THEN u ELSE t
         [] t.tag \in {"Lam", "Pi", "Sig", "Let"} ->
              LET front == IF t.tag = "Let"
                           THEN [t EXCEPT !.type = RefSubst(t.type, v, u),
                                          !.def = RefSubst(t.def, v, u)]
                           ELSE [t EXCEPT !.type = RefSubst(t.type, v, u)]
              IN  IF t.name = v THEN front
                  ELSE IF t.name \notin RefFV(u)
                  THEN [front EXCEPT !.body = RefSubst(t.body, v, u)]
                  ELSE LET y == RefFresh(RefFV(t.body) \cup RefFV(u) \cup {v})
                       IN  [front EXCEPT !.name = y,
                                         !.body = RefSubst(RefSubst(t.body, t.name, [tag |-> "Var", name |-> y]), v, u)]
         [] t.tag = "Pair" ->
              [t EXCEPT !.fst = RefSubst(t.fst, v, u), !.snd = RefSubst(t.snd, v, u),
                        !.as = RefSubst(t.as, v, u)]
         [] t.tag \in {"Fst", "Snd"} -> [t EXCEPT !.pair = RefSubst(t.pair, v, u)]
         [] t.tag = "App" -> [t EXCEPT !.fun = RefSubst(t.fun, v, u), !.arg = RefSubst(t.arg, v, u)]

\* env pairs the binders passed on the two sides, innermost last
RECURSIVE RefAlpha(_, _, _)
RefAlpha(t, u, env) ==
  IF t = Undefined \/ u = Undefined THEN t = u
  ELSE IF t = Thrown \/ u = Thrown THEN FALSE
  ELSE IF t.tag # u.tag THEN FALSE
  ELSE CASE t.tag = "Sort" -> t.name = u.name
         [] t.tag = "Var" ->
              LET hits == {i \in 1..Len(env) : env[i][1] = t.name \/ env[i][2] = u.name}
              IN  IF hits = {} THEN t.name = u.name
                  ELSE LET i == CHOOSE k \in hits : \A j \in hits : j <= k
                       IN  env[i] = <<t.name, u.name>>
         [] t.tag \in {"Lam", "Pi", "Sig"} ->
              /\ RefAlpha(t.type, u.type, env)
              /\ RefAlpha(t.body, u.body, Append(env, <<t.name, u.name>>))
         [] t.tag = "Let" ->
              /\ RefAlpha(t.type, u.type, env)
              /\ RefAlpha(t.def, u.def, env)
              /\ RefAlpha(t.body, u.body, Append(env, <<t.name, u.name>>))
         [] t.tag = "Pair" ->
              /\ RefAlpha(t.fst, u.fst, env)
              /\ RefAlpha(t.snd, u.snd, env)
              /\ RefAlpha(t.as, u.as, env)
         [] t.tag \in {"Fst", "Snd"} -> RefAlpha(t.pair, u.pair, env)
         [] t.tag = "App" -> RefAlpha(t.fun, u.fun, env) /\ RefAlpha(t.arg, u.arg, env)

\* C21: for every core term t (a Pair with ascription and a Let without
\* type included), name v and term u, subst(t, v, u) is a term, is
\* alpha-equal to the capture-avoiding replacement of the free occurrences
\* of v in t by u, and is t itself when v is not free in t.
C21_SubstReference ==
  (dfOut # Undefined /\ dfOut.op = "subst")
    => /\ dfOut.r # Thrown
       /\ RefAlpha(dfOut.r, RefSubst(dfArgs.t, dfArgs.v, dfArgs.u), <<>>)
       /\ dfArgs.v \notin RefFV(dfArgs.t) => dfOut.r = dfArgs.t

\* the same on the terms whose Let nodes carry a type and whose Pair nodes
\* carry no ascription
RECURSIVE Plain(_)
Plain(t) ==
  CASE t.tag \in {"Sort", "Var"} -> TRUE
    [] t.tag \in {"Lam", "Pi", "Sig"} -> Plain(t.type) /\ Plain(t.body)
    [] t.tag = "Let" -> t.type # Undefined /\ Plain(t.type) /\ Plain(t.def) /\ Plain(t.body)
    [] t.tag = "Pair" -> t.as = Undefined /\ Plain(t.fst) /\ Plain(t.snd)
    [] t.tag \in {"Fst", "Snd"} -> Plain(t.pair)
    [] t.tag = "App" -> Plain(t.fun) /\ Plain(t.arg)

SubstReferenceOnPlain ==
  (dfOut # Undefined /\ dfOut.op = "subst" /\ Plain(dfArgs.t) /\ Plain(dfArgs.u))
    => /\ dfOut.r # Thrown
       /\ RefAlpha(dfOut.r, RefSubst(dfArgs.t, dfArgs.v, dfArgs.u), <<>>)
       /\ dfArgs.v \notin RefFV(dfArgs.t) => dfOut.r = dfArgs.t

\* C22: dszNF at Var(x) takes the visible binding of x (the rightmost
\* local, without one the rightmost global): a Def gives the normal form
\* of its body; a Var, or no binding, leaves Var(x) as it is, also when a
\* global of the same name is a Def.
C22_VarResolution ==
  (tcOut # Undefined /\ tcOut.op = "normalize" /\ tcTerm.tag = "Var")
    => LET e == Visible(tcJc, tcTerm.name) IN
       dszNF(tcJc, tcTerm) = IF e # Undefined /\ e.tag = "Def" THEN dszNF(tcJc, e.def)
                             ELSE tcTerm

\* C23: headNF reduces the projection of a pair: headNF(Fst(Pair(a, b, _)))
\* is headNF(a) and headNF(Snd(Pair(a, b, _))) is headNF(b).
C23_HeadNFProjection ==
  (/\ tcOut # Undefined /\ tcOut.op = "headNF"
   /\ tcTerm.tag \in {"Fst", "Snd"} /\ tcTerm.pair.tag = "Pair")
    => tcOut.r = IF tcTerm.tag = "Fst" THEN headNF(tcTerm.pair.fst)
                 ELSE headNF(tcTerm.pair.snd)

\* the dependencies <<from, to, kind>> present in a declaration list, as
\* graph nodes: a global on a global it names outside its parameters, a
\* local on the earlier local it names, or else on the global it names
DepEdges(ctx) ==
  UNION {
    LET g == ctx[i]
        bound == {g.local[j].name : j \in 1..Len(g.local)}
    IN  UNION {
          {<<GlobalNode(g.elem.name), GlobalNode(n), kind>> :
             n \in (FreeNames(TermsOf(g.elem, kind)) \ bound) \cap GlobalNames(ctx)}
          \cup UNION {
            LET e == g.local[k]
                earlier == {g.local[j].name : j \in 1..(k - 1)}
            IN  {<<LocalNode(g.elem.name, e.name),
                   IF n \in earlier THEN LocalNode(g.elem.name, n) ELSE GlobalNode(n),
                   kind>> :
                   n \in FreeNames(TermsOf(e, kind)) \cap (earlier \cup GlobalNames(ctx))}
            : k \in 1..Len(g.local)}
          : kind \in {"type", "def"}}
    : i \in 1..Len(ctx)}

\* C24: the path of a Cycle error is a closed chain of dependencies of the
\* program: each entry {from, to, kind} is a dependency of from on to of
\* that kind, each entry's to is the next entry's from, and the last
\* entry's to is the first entry's from.
C24_CyclePath ==
  (ctxOut # Undefined /\ isErr(ctxOut) /\ ctxOut.err.tag = "Cycle")
    => LET path == ctxOut.err.path IN
       /\ Len(path) > 0
       /\ \A k \in 1..Len(path) : <<path[k].from, path[k].to, path[k].kind>> \in DepEdges(ctxIn)
       /\ \A k \in 1..(Len(path) - 1) : path[k].to = path[k + 1].from
       /\ path[Len(path)].to = path[1].from

\* the same, for lists without parameters, with the kind left out
CyclePathEdges ==
  (/\ ctxOut # Undefined /\ isErr(ctxOut) /\ ctxOut.err.tag = "Cycle"
   /\ \A i \in 1..Len(ctxIn) : ctxIn[i].local = <<>>)
    => LET path == ctxOut.err.path IN
       /\ \A k \in 1..Len(path) :
            \E kind \in {"type", "def"} : <<path[k].from, path[k].to, kind>> \in DepEdges(ctxIn)
       /\ \A k \in 1..(Len(path) - 1) : path[k].to = path[k + 1].from
       /\ path[Len(path)].to = path[1].from

(***************************************************************************)
(* Free names of surface terms on their own: pFreeVariables is applied to  *)
(* a surface term of a pool.                                               *)
(***************************************************************************)
FvAtoms == {Variable(nx), Variable(ny), PSort("Prop")}

FvPool ==
  {[tag |-> q, binders |-> <<varBinder(<<n>>, ty)>>, body |-> b] :
     q \in {"Lambda", "Pi", "Sigma"}, n \in DefNames, ty \in FvAtoms,
     b \in FvAtoms \cup {Apply(<<Variable(nx), Variable(ny)>>)}}
  \cup
  { Arrow(Variable(nx), Variable(ny)), Prod(Variable(nx), Variable(nx)),
    PPair(Variable(nx), PSort("Prop"), Variable(ny)), First(Variable(nx)), Second(Variable(ny)),
    \* fun (x y : Prop) => x y
    Lambda(<<varBinder(<<nx, ny>>, PSort("Prop"))>>, Apply(<<Variable(nx), Variable(ny)>>)),
    \* fun (x : Prop) (y : x) => y
    Lambda(<<varBinder(<<nx>>, PSort("Prop")), varBinder(<<ny>>, Variable(nx))>>, Variable(ny)),
    \* fun (x : Prop) => (fun (x : Prop) => x) x
    Lambda(<<varBinder(<<nx>>, PSort("Prop"))>>,
           Apply(<<Lambda(<<varBinder(<<nx>>, PSort("Prop"))>>, Variable(nx)), Variable(nx)>>)),
    \* forall (x : Prop) (y : forall (x : Prop), x), x
    PPi(<<varBinder(<<nx>>, PSort("Prop")),
          varBinder(<<ny>>, PPi(<<varBinder(<<nx>>, PSort("Prop"))>>, Variable(nx)))>>,
        Variable(nx)),
    \* fun (z := x) => z
    Lambda(<<defBinder(<<"z">>, Undefined, Variable(nx))>>, Variable(<<"z">>)),
    \* let f := y in f
    PLet(<<"f">>, <<>>, Undefined, Variable(ny), Variable(<<"f">>)),
    \* let x : Prop := x in x
    PLet(nx, <<>>, PSort("Prop"), Variable(nx), Variable(nx)),
    \* let f (x : Prop) : x := x in f
    PLet(<<"f">>, <<varBinder(<<nx>>, PSort("Prop"))>>, Variable(nx), Variable(nx), Variable(<<"f">>)),
    \* let f (x : Prop) : Prop := x in x
    PLet(<<"f">>, <<varBinder(<<nx>>, PSort("Prop"))>>, PSort("Prop"), Variable(nx), Variable(nx)) }

InitFree ==
  /\ elIn \in FvPool
  /\ elOut = Undefined
  /\ AppIdle /\ TokIdle /\ ParseIdle /\ TCIdle /\ CtxIdle /\ DefIdle

\* pFreeVariables(t)
RunFreeVariables ==
  /\ elOut = Undefined
  /\ \E r \in {Call("pFreeVariables", <<elIn>>)} : elOut' = [op |-> "pFreeVariables", r |-> r]
  /\ UNCHANGED <<elIn, appVars, tokVars, parseVars, tcVars, ctxVars, defVars>>

NextFree == RunFreeVariables

SpecFree == InitFree /\ [][NextFree]_vars

\* the names bound by a binder
BinderNames(m) == IF m.tag = "Var" THEN Range(m.names) ELSE {m.name}

\* the names with an occurrence in t outside the scope of a binder for
\* them; env holds the names bound around t
RECURSIVE LexFree(_, _), LexFreeBinders(_, _), LexFreeAll(_, _)
LexFree(t, env) ==
  IF t = Undefined THEN {}
  ELSE CASE t.tag = "Sort" -> {}
         [] t.tag = "Variable" -> {t.name} \ env
         [] t.tag = "Arrow" -> LexFree(t.in, env) \cup LexFree(t.out, env)
         [] t.tag = "Pair" -> LexFree(t.first, env) \cup LexFree(t.second, env) \cup LexFree(t.type, env)
         [] t.tag \in {"First", "Second"} -> LexFree(t.pair, env)
         [] t.tag = "Prod" -> LexFree(t.first, env) \cup LexFree(t.second, env)
         [] t.tag = "Apply" -> LexFreeAll(t.apply, env)
         [] t.tag \in {"Lambda", "Pi", "Sigma"} ->
              LET inner == env \cup UNION {BinderNames(t.binders[i]) : i \in 1..Len(t.binders)}
              IN  LexFreeBinders(t.binders, env) \cup LexFree(t.body, inner)
         [] t.tag = "Let" ->
              LET inner == env \cup UNION {BinderNames(t.binders[i]) : i \in 1..Len(t.binders)}
              IN  LexFreeBinders(t.binders, env) \cup LexFree(t.type, inner)
                    \cup LexFree(t.def, inner) \cup LexFree(t.body, env \cup {t.name})

LexFreeBinders(bs, env) ==
  IF bs = <<>> THEN {}
  ELSE LET m == Head(bs)
       IN  LexFree(m.type, env) \cup (IF m.tag = "Def" THEN LexFree(m.def, env) ELSE {})
             \cup LexFreeBinders(Tail(bs), env \cup BinderNames(m))

LexFreeAll(ts, env) ==
  IF ts = <<>> THEN {} ELSE LexFree(Head(ts), env) \cup LexFreeAll(Tail(ts), env)

\* C25: pFreeVariables(t) is the set of names with an occurrence in t
\* outside the scope of every binder for that name: the names of a binder
\* scope over the later binders and the body; the parameters of a let
\* scope over its type and definition, not over its body; an inner binder
\* of the same name does not end the scope of an outer one.
C25_FreeVariables ==
  elOut # Undefined => Range(elOut.r) = LexFree(elIn, {})

\* the same without a let with parameters and without a binder inside the
\* scope of a binder of the same name
FreeVariablesOneBinder ==
  (/\ elOut # Undefined
   /\ elIn.tag \in {"Lambda", "Pi", "Sigma"}
   /\ Len(elIn.binders) = 1
   /\ \A i \in 1..(IF elIn.body.tag = "Apply" THEN Len(elIn.body.apply) ELSE 0) :
        elIn.body.apply[i].tag = "Variable")
    => Range(elOut.r) = LexFree(elIn, {})

(***************************************************************************)
(* The tokenizer read to the end: next() is called again and again, also   *)
(* after EOF, on sources with blanks, newlines, comments and tokens.       *)
(***************************************************************************)
MaxLiveLen == 3

LiveAlphabet == {" ", "\n", "a", ":", "{", "-", "}"}

LiveSources == UNION {[1..n -> LiveAlphabet] : n \in 0..MaxLiveLen}

\* before the tokenizer is constructed
InitTokLive ==
  /\ tkz = Undefined
  /\ tkzPrev = Undefined
  /\ tok = Undefined
  /\ AppIdle /\ ParseIdle /\ TCIdle /\ LibIdle

\* new Tokenizer(src)
Construct(src) ==
  /\ tkz = Undefined
  /\ tkz' = Tokenizer(src)
  /\ UNCHANGED <<tkzPrev, tok, appVars, parseVars, tcVars, libVars>>

NextTokLive ==
  \/ \E src \in LiveSources : Construct(src)
  \/ CallNext

\* the caller calls next() again whatever the last answer was
SpecTokLive == InitTokLive /\ [][NextTokLive]_vars /\ WF_vars(NextTokLive)

IsEOF(r) == r # Undefined /\ isSucc(r) /\ r.value.type = "EOF"

\* the position after the last character of the source of tz
EndPosition(tz) ==
  currentPosition(advanceText([src |-> tz.src, pos |-> 0, line |-> 1, col |-> 1], tz.src))

\* C26: on a source without tokenizer error, the calls of next() return
\* finitely many tokens other than EOF, each call moving the position
\* forward, and then EOF; the EOF token has the zero-width range at the end
\* of the input, and from then on every call returns that same token and
\* leaves the tokenizer as it is.
C26_StickyEOF ==
  /\ []((tok # Undefined /\ isSucc(tok) /\ ~IsEOF(tok)) => tkz.pos > tkzPrev.pos)
  /\ [](IsEOF(tok) => /\ tok.value.range.start = EndPosition(tkz)
                      /\ tok.value.range.end = EndPosition(tkz)
                      /\ tkz.pos = Len(tkz.src))
  /\ [][IsEOF(tok) => (tok' = tok /\ tkz' = tkz)]_vars
  /\ <>(tok # Undefined /\ (isErr(tok) \/ IsEOF(tok)))

\* EOF was returned on a source of two lines that holds a token
C26_Witness ==
  /\ IsEOF(tok)
  /\ tkz.line = 2
  /\ \E i \in 1..Len(tkz.src) : tkz.src[i] = "a"
  /\ tkzPrev = tkz

\* C28: dszNF does not replace a name that a Lam, Pi or Sig of the term
\* binds by the body of a definition of the same name: Q(x, T, Var x) keeps
\* its body, and is not convertible with Q(x, T, d) when d, the body of
\* the visible definition of x, does not mention x.
C28_BoundNamesStay ==
  /\ (/\ tcOut # Undefined /\ tcOut.op = "normalize"
      /\ tcTerm.tag \in {"Lam", "Pi", "Sig"}
      /\ tcTerm.body = varia(tcTerm.name)
      /\ tcOut.r # Thrown)
       => tcOut.r.body = varia(tcOut.r.name)
  /\ (/\ tcOut # Undefined /\ tcOut.op = "ahEq"
      /\ tcTerm[1].tag \in {"Lam", "Pi", "Sig"}
      /\ tcTerm[1].body = varia(tcTerm[1].name)
      /\ LET e == Visible(tcJc, tcTerm[1].name) IN
         /\ e # Undefined /\ e.tag = "Def"
         /\ tcTerm[1].name \notin RefFV(e.def)
         /\ tcTerm[2] = [tcTerm[1] EXCEPT !.body = e.def])
       => tcOut.r # succ(TRUE)

\* C29: a declaration list that checkGlobalContext accepts is well-scoped
\* for the type checker: wellFormed on the elaborated list with no locals
\* does not fail with UnboundVariable.
C29_AcceptedIsWellScoped ==
  (ctxOut # Undefined /\ isSucc(ctxOut))
    => LET wf == wellFormed(judgCtx(elabGlobalContext(ctxIn), <<>>))
       IN  wf # Thrown /\ (isErr(wf) => wf.err.error.tag # "UnboundVariable")

\* C30: in a context that wellFormed accepts, a type T that typeInfer
\* returns for a term is Sort(Type), or typeInfer gives T a type whose
\* normal form is a sort.
C30_InferredTypeIsType ==
  (/\ tcOut # Undefined /\ tcOut.op = "typeInfer"
   /\ tcOut.r # Thrown /\ isSucc(tcOut.r)
   /\ wellFormed(tcJc) = succ(TRUE))
    => \/ tcOut.r.value = sort("Type")
       \/ LET tt == typeInfer(tcJc, tcOut.r.value) IN
          /\ tt # Thrown /\ isSucc(tt)
          /\ headNF(dszNF(tcJc, tt.value)).tag = "Sort"

(***************************************************************************)
(* The type checker with its arrays as objects (typecheck.ts).  A heap H   *)
(* is the sequence of the arrays allocated so far, an array being          *)
(* [items, base]: its elements and the number of them it was created with. *)
(* A context holds the indices of its two arrays.  Exec runs a function on *)
(* a heap and returns its result with the heap it leaves.                  *)
(***************************************************************************)
Out(r, H) == [r |-> r, H |-> H]

\* the context value that the arrays of jc hold in H
ValueOf(H, jc) == judgCtx(H[jc.global].items, H[jc.local].items)

\* a variant of slice that returns the array itself
sliceShared(H, id) == [H |-> H, id |-> id]

\* array.slice(): a new array with the same elements
slice(H, id) ==
  [H |-> Append(H, [items |-> H[id].items, base |-> Len(H[id].items)]), id |-> Len(H) + 1]

\* const local = jc.local.slice(); local.push(e); judgCtx(jc.global, local)
extended(H, jc, e) ==
  LET c == slice(H, jc.local)
  IN  [H |-> [c.H EXCEPT ![c.id].items = Append(@, e)],
       jc |-> [global |-> jc.global, local |-> c.id]]

\* headNF(dszNF(jc, t)) with the arrays of jc as they are in H
normalForm(H, jc, t) == Call("headNF", <<Call("dszNF", <<ValueOf(H, jc), t>>)>>)

\* if (sNF.tag !== "Sort") return err(ExpectedSort); return succ(v)
sortOr(sNF, v) ==
  IF sNF = Thrown THEN Thrown
  ELSE IF sNF.tag # "Sort" THEN err([tag |-> "ExpectedSort", actual |-> sNF])
  ELSE succ(v)

Exec(f, a, H) ==
  CASE f = "typeInfer" ->
         LET jc == a[1]
             t == a[2]
         IN
         (CASE t.tag \in {"Sort", "Var"} -> Out(Call("typeInfer", <<ValueOf(H, jc), t>>), H)
           [] t.tag = "Lam" ->
                LET x == extended(H, jc, ctxVar(t.name, t.type))
                    bodyType == Call("Exec", <<"typeInfer", <<x.jc, t.body>>, x.H>>)
                IN  IF Bad(bodyType.r) THEN bodyType
                    ELSE LET termType == pi(t.name, t.type, bodyType.r.value)
                             sr == Call("Exec", <<"typeInfer", <<jc, termType>>, bodyType.H>>)
                         IN  IF Bad(sr.r) THEN sr
                             ELSE Out(sortOr(normalForm(sr.H, jc, sr.r.value), termType), sr.H)
           [] t.tag \in {"Pi", "Sig"} ->
                LET s0 == Call("Exec", <<"typeInfer", <<jc, t.type>>, H>>) IN
                IF Bad(s0.r) THEN s0
                ELSE LET s0NF == normalForm(s0.H, jc, s0.r.value) IN
                     IF Bad(sortOr(s0NF, s0NF)) THEN Out(sortOr(s0NF, s0NF), s0.H)
                     ELSE LET x == extended(s0.H, jc, ctxVar(t.name, t.type))
                              s1 == Call("Exec", <<"typeInfer", <<x.jc, t.body>>, x.H>>)
                          IN  IF Bad(s1.r) THEN s1
                              ELSE LET s1NF == normalForm(s1.H, jc, s1.r.value) IN
                                   IF Bad(sortOr(s1NF, s1NF)) THEN Out(sortOr(s1NF, s1NF), s1.H)
                                   ELSE IF t.tag = "Pi" THEN Out(succ(s1NF), s1.H)
                                   ELSE IF (s0NF.name = "Prop" /\ s1NF.name = "Prop")
                                           \/ s1NF.name = "Type"
                                   THEN Out(succ(s1NF), s1.H)
                                   ELSE Out(err([tag |-> "ImpossibleCombination",
                                                 sort0 |-> s0NF.name, sort1 |-> s1NF.name]), s1.H)
           [] t.tag = "Pair" ->
                IF t.as # Undefined
                THEN LET asCheck == Call("Exec", <<"typeCheck", <<jc, t, t.as>>, H>>) IN
                     IF Bad(asCheck.r) THEN asCheck ELSE Out(succ(t.as), asCheck.H)
                ELSE LET firstType == Call("Exec", <<"typeInfer", <<jc, t.fst>>, H>>) IN
                     IF Bad(firstType.r) THEN firstType
                     ELSE LET secondType == Call("Exec", <<"typeInfer", <<jc, t.snd>>, firstType.H>>) IN
                          IF Bad(secondType.r) THEN secondType
                          ELSE Out(succ(sig(anon, firstType.r.value, secondType.r.value)),
                                   secondType.H)
           [] t.tag \in {"Fst", "Snd"} ->
                LET pairType == Call("Exec", <<"typeInfer", <<jc, t.pair>>, H>>) IN
                IF Bad(pairType.r) THEN pairType
                ELSE LET pairTypeNF == normalForm(pairType.H, jc, pairType.r.value) IN
                     Out(IF pairTypeNF = Thrown THEN Thrown
                         ELSE IF pairTypeNF.tag # "Sig"
                         THEN err([tag |-> "ExpectedSigma", pair |-> t.pair, actual |-> pairTypeNF])
                         ELSE IF t.tag = "Fst" THEN succ(pairTypeNF.type)
                         ELSE succT(Call("subst", <<pairTypeNF.body, pairTypeNF.name, fst(t.pair)>>)),
                         pairType.H)
           [] t.tag = "Let" ->
                LET defR == IF t.type # Undefined
                            THEN LET defCheck == Call("Exec", <<"typeCheck", <<jc, t.def, t.type>>, H>>) IN
                                 IF Bad(defCheck.r) THEN defCheck ELSE Out(succ(t.type), defCheck.H)
                            ELSE Call("Exec", <<"typeInfer", <<jc, t.def>>, H>>)
                IN  IF Bad(defR.r) THEN defR
                    ELSE LET x == extended(defR.H, jc, ctxDef(t.name, defR.r.value, t.def))
                             bodyType == Call("Exec", <<"typeInfer", <<x.jc, t.body>>, x.H>>)
                         IN  IF Bad(bodyType.r) THEN bodyType
                             ELSE Out(succT(Call("subst", <<bodyType.r.value, t.name, t.def>>)),
                                      bodyType.H)
           [] t.tag = "App" ->
                LET funType == Call("Exec", <<"typeInfer", <<jc, t.fun>>, H>>) IN
                IF Bad(funType.r) THEN funType
                ELSE LET funTypeNF == normalForm(funType.H, jc, funType.r.value) IN
                     IF funTypeNF = Thrown THEN Out(Thrown, funType.H)
                     ELSE IF funTypeNF.tag # "Pi"
                     THEN Out(err([tag |-> "ExpectedPi", fun |-> t.fun, actual |-> funTypeNF]),
                              funType.H)
                     ELSE LET argType == Call("Exec", <<"typeInfer", <<jc, t.arg>>, funType.H>>) IN
                          IF Bad(argType.r) THEN argType
                          ELSE LET eq == Call("Exec", <<"ahEq", <<jc, argType.r.value, funTypeNF.type>>, argType.H>>) IN
                               Out(IF isThrow(eq.r) THEN Thrown
                                   ELSE IF ~eq.r.value
                                   THEN err([tag |-> "TypeMismatch", expected |-> funTypeNF.type,
                                             actual |-> argType.r.value])
                                   ELSE succT(Call("subst", <<funTypeNF.body, funTypeNF.name, t.arg>>)),
                                   eq.H))
    [] f = "typeCheck" ->
         LET jc == a[1]
             t == a[2]
             expected == a[3]
         IN
         IF t.tag = "Pair"
         THEN LET expectedNF == normalForm(H, jc, expected) IN
              IF expectedNF = Thrown THEN Out(Thrown, H)
              ELSE IF expectedNF.tag # "Sig"
              THEN Out(err([tag |-> "ExpectedSigma", pair |-> t, actual |-> expectedNF]), H)
              ELSE LET fstCheck == Call("Exec", <<"typeCheck", <<jc, t.fst, expectedNF.type>>, H>>) IN
                   IF Bad(fstCheck.r) THEN fstCheck
                   ELSE LET sndExpected == Call("subst", <<expectedNF.body, expectedNF.name, t.fst>>) IN
                        IF sndExpected = Thrown THEN Out(Thrown, fstCheck.H)
                        ELSE LET sndCheck == Call("Exec", <<"typeCheck", <<jc, t.snd, sndExpected>>, fstCheck.H>>) IN
                             IF Bad(sndCheck.r) THEN sndCheck
                             ELSE LET x == extended(sndCheck.H, jc, ctxVar(expectedNF.name, expectedNF.type))
                                      sr == Call("Exec", <<"typeInfer", <<x.jc, sndExpected>>, x.H>>)
                                  IN  IF Bad(sr.r) THEN sr
                                      ELSE Out(sortOr(normalForm(sr.H, x.jc, sr.r.value), TRUE), sr.H)
         ELSE LET inferred == Call("Exec", <<"typeInfer", <<jc, t>>, H>>) IN
              IF Bad(inferred.r) THEN inferred
              ELSE LET eq == Call("Exec", <<"ahEq", <<jc, inferred.r.value, expected>>, inferred.H>>) IN
                   Out(IF isThrow(eq.r) THEN Thrown
                       ELSE IF ~eq.r.value
                       THEN err([tag |-> "TypeMismatch", expected |-> expected,
                                 actual |-> inferred.r.value])
                       ELSE succ(TRUE),
                       eq.H)
    [] f = "ahEq" ->
         LET jc == a[1]
             tWhnf == normalForm(H, jc, a[2])
             uWhnf == normalForm(H, jc, a[3])
         IN  IF tWhnf = Thrown \/ uWhnf = Thrown THEN Out(Thrown, H)
             ELSE IF tWhnf.tag = "Lam"
             THEN LET x == extended(H, jc, ctxVar(tWhnf.name, tWhnf.type)) IN
                  Call("Exec", <<"ahEq", <<x.jc, tWhnf.body, app(uWhnf, varia(tWhnf.name))>>, x.H>>)
             ELSE IF uWhnf.tag = "Lam"
             THEN LET x == extended(H, jc, ctxVar(uWhnf.name, uWhnf.type)) IN
                  Call("Exec", <<"ahEq", <<x.jc, app(tWhnf, varia(uWhnf.name)), uWhnf.body>>, x.H>>)
             ELSE Out(Call("alphaEq", <<tWhnf, uWhnf>>), H)
    [] f = "check" ->
         LET ctx == a[1]
             e == a[2]
         IN  IF e.tag = "Var"
             THEN LET cr == Call("Exec", <<"typeInfer", <<ctx, e.type>>, H>>) IN
                  Out(IF isThrow(cr.r) THEN Thrown
                      ELSE IF isErr(cr.r) THEN err([error |-> cr.r.err, at |-> e])
                      ELSE IF cr.r.value.tag # "Sort"
                      THEN err([error |-> [tag |-> "ExpectedSort", actual |-> cr.r.value], at |-> e])
                      ELSE succ(TRUE),
                      cr.H)
             ELSE LET cr == Call("Exec", <<"typeCheck", <<ctx, e.def, e.type>>, H>>) IN
                  Out(IF isThrow(cr.r) THEN Thrown
                      ELSE IF isErr(cr.r) THEN err([error |-> cr.r.err, at |-> e])
                      ELSE succ(TRUE),
                      cr.H)
    [] f = "wellFormed" ->
         \* const g: Context = []; const l: Context = []
         LET g == Len(H) + 1
             l == Len(H) + 2
             empty == [items |-> <<>>, base |-> 0]
         IN  Call("Exec", <<"forGlobal", <<a[1], [global |-> g, local |-> l], 1>>,
                            H \o <<empty, empty>> >>)
    [] f = "forGlobal" ->
         \* for (const e of jc.global) { ...; g.push(e) }: a[2] holds g and l,
         \* a[3] the index
         IF a[3] > Len(H[a[1].global].items) THEN Call("Exec", <<"forLocal", <<a[1], a[2], 1>>, H>>)
         ELSE LET e == H[a[1].global].items[a[3]]
                  cr == Call("Exec", <<"check", <<a[2], e>>, H>>)
              IN  IF Bad(cr.r) THEN cr
                  ELSE Call("Exec", <<"forGlobal", <<a[1], a[2], a[3] + 1>>, [cr.H EXCEPT ![a[2].global].items = Append(@, e)]>>)
    [] f = "forLocal" ->
         IF a[3] > Len(H[a[1].local].items) THEN Out(succ(TRUE), H)
         ELSE LET e == H[a[1].local].items[a[3]]
                  cr == Call("Exec", <<"check", <<a[2], e>>, H>>)
              IN  IF Bad(cr.r) THEN cr
                  ELSE Call("Exec", <<"forLocal", <<a[1], a[2], a[3] + 1>>, [cr.H EXCEPT ![a[2].local].items = Append(@, e)]>>)

FrameContexts ==
  {judgCtx(g, l) :
     g \in {<<>>, <<AElem>>, <<AElem, aElem>>, <<AElem, IdElem>>, <<AElem, aElem, IElem>>,
            <<AElem, BadElem>>},
     l \in {<<>>, <<ctxVar(<<"y">>, vA)>>, <<ctxVar(<<"x">>, sort("Prop"))>>}}

FrameCalls ==
  {<<"typeInfer", <<t>>>> : t \in TermPool}
  \cup {<<"typeCheck", <<t, e>>>> :
          t \in {va, pair(vA, va, Undefined), pair(va, va, Undefined), lam(<<"x">>, vA, vx)},
          e \in {vA, SigPropProp, sig(anon, sort("Prop"), vA), pi(<<"x">>, vA, vA)}}
  \cup {<<"ahEq", <<t, u>>>> :
          t \in {vA, vId, lam(<<"x">>, sort("Prop"), vx), lam(<<"x">>, sort("Prop"), lam(<<"y">>, vA, vx))},
          u \in {vA, vId, lam(<<"y">>, sort("Prop"), varia(<<"y">>))}}
  \cup {<<"wellFormed", <<>>>>}

\* the caller's context is the pair of arrays 1 and 2
InitFrame ==
  /\ tcJc \in FrameContexts
  /\ tcTerm = Undefined
  /\ tcOut = Undefined
  /\ AppIdle /\ TokIdle /\ ParseIdle /\ LibIdle

\* a call f(jc, ...) by a caller that holds jc
RunCall(c) ==
  /\ tcOut = Undefined
  /\ tcTerm' = c
  /\ \E x \in {Call("Exec", <<c[1], <<[global |-> 1, local |-> 2]>> \o c[2],
                                << [items |-> tcJc.global, base |-> Len(tcJc.global)],
                                   [items |-> tcJc.local, base |-> Len(tcJc.local)] >> >>)} :
       tcOut' = [op |-> c[1], r |-> x.r, heap |-> x.H]
  /\ UNCHANGED <<tcJc, appVars, tokVars, parseVars, libVars>>

NextFrame == \E c \in FrameCalls : RunCall(c)

SpecFrame == InitFrame /\ [][NextFrame]_vars

\* C27: typeInfer, typeCheck, ahEq and wellFormed leave the arrays of the
\* caller's context as they were, whether they succeed or fail, and an
\* array copied for a binder receives the one element it was copied for
\* and nothing from the calls made with it.
C27_CallerContextUnchanged ==
  tcOut # Undefined
    => /\ tcOut.heap[1].items = tcJc.global
       /\ tcOut.heap[2].items = tcJc.local
       /\ \A i \in 3..Len(tcOut.heap) :
            tcOut.op # "wellFormed" => Len(tcOut.heap[i].items) = tcOut.heap[i].base + 1

\* typeInfer under a binder has returned: a copy of the local array exists
C27_Witness ==
  /\ tcOut # Undefined
  /\ tcOut.op = "typeInfer"
  /\ isSucc(tcOut.r)
  /\ tcJc.local # <<>>
  /\ Len(tcOut.heap) > 3

\* the results on arrays are the results on values
FrameResults ==
  tcOut # Undefined
    => tcOut.r = (CASE tcOut.op = "typeInfer" -> typeInfer(tcJc, tcTerm[2][1])
                    [] tcOut.op = "typeCheck" -> typeCheck(tcJc, tcTerm[2][1], tcTerm[2][2])
                    [] tcOut.op = "ahEq" -> ahEq(tcJc, tcTerm[2][1], tcTerm[2][2])
                    [] tcOut.op = "wellFormed" -> wellFormed(tcJc))

====
